---- MODULE Spec2Model ----
(***************************************************************************)
(* Admission control of the API gateway: the rate-limit rule table, the    *)
(* Redis sorted-set rate limiter (evaluation, status, reset) and the       *)
(* per-service circuit breaker driven by the proxy's outcome probes.       *)
(***************************************************************************)
EXTENDS Integers, Sequences, FiniteSets, TLC

(***************************************************************************)
(* JavaScript values.  A value is a tagged record so that a property       *)
(* lookup on the rule table can return an object, a number, a string or    *)
(* undefined, exactly as obj[key] does.                                    *)
(***************************************************************************)
Undefined == [t |-> "undef"]
Num(n) == [t |-> "num", v |-> n]
Str(s) == [t |-> "str", v |-> s]
Obj(f) == [t |-> "obj", v |-> f]

\* JavaScript truthiness of a value (if (!x), x && y, x || y).
Truthy(x) ==
  CASE x.t = "obj" -> TRUE
    [] x.t = "num" -> x.v # 0
    [] x.t = "str" -> x.v # ""
    [] OTHER -> FALSE

\* obj[key]: an own property of an object, undefined otherwise.
Get(o, k) ==
  IF o.t = "obj" /\ k \in DOMAIN o.v THEN o.v[k] ELSE Undefined

\* One rule literal {windowMs, maxRequests, message}.
Rule(w, m, msg) ==
  Obj([windowMs |-> Num(w), maxRequests |-> Num(m), message |-> Str(msg)])

\* The rule table of rateLimitRules.js.
rateLimitRules ==
  Obj([default |-> Rule(15 * 60 * 1000, 100, "default"),
       auth |-> Obj([login |-> Rule(15 * 60 * 1000, 5, "auth.login"),
                     register |-> Rule(60 * 60 * 1000, 3, "auth.register"),
                     refresh |-> Rule(5 * 60 * 1000, 10, "auth.refresh"),
                     default |-> Rule(15 * 60 * 1000, 20, "auth.default")]),
       posts |-> Obj([create |-> Rule(60 * 60 * 1000, 10, "posts.create"),
                      list |-> Rule(1 * 60 * 1000, 30, "posts.list"),
                      default |-> Rule(15 * 60 * 1000, 50, "posts.default")]),
       comments |-> Obj([create |-> Rule(15 * 60 * 1000, 30, "comments.create"),
                         default |-> Rule(15 * 60 * 1000, 60, "comments.default")]),
       media |-> Obj([upload |-> Rule(60 * 60 * 1000, 20, "media.upload"),
                      default |-> Rule(15 * 60 * 1000, 100, "media.default")])])

(***************************************************************************)
(* A request path is a sequence of tokens: the separator "/" and the text  *)
(* between separators.  SplitSlash is path.split("/"): the pieces between  *)
(* separators, empty pieces included.                                      *)
(***************************************************************************)
RECURSIVE SplitFrom(_, _, _)
SplitFrom(p, i, cur) ==
  IF i > Len(p) THEN <<cur>>
  ELSE IF p[i] = "/" THEN <<cur>> \o SplitFrom(p, i + 1, "")
  ELSE SplitFrom(p, i + 1, p[i])

SplitSlash(p) == SplitFrom(p, 1, "")

\* .filter(Boolean) on an array of strings drops the empty ones.
IsNonEmptyStr(s) == s # ""
FilterBoolean(a) == SelectSeq(a, IsNonEmptyStr)

\* getRateLimitRule(path)
getRateLimitRule(path) ==
  LET parts == FilterBoolean(SplitSlash(path))
  IN IF Len(parts) < 2 THEN Get(rateLimitRules, "default")
     ELSE LET service == parts[2]
              action == IF Len(parts) >= 3 THEN Str(parts[3]) ELSE Undefined
              serviceRules == Get(rateLimitRules, service)
          IN IF ~Truthy(serviceRules) THEN Get(rateLimitRules, "default")
             ELSE IF Truthy(action) /\ Truthy(Get(serviceRules, action.v))
                  THEN Get(serviceRules, action.v)
                  ELSE IF Truthy(Get(serviceRules, "default"))
                       THEN Get(serviceRules, "default")
                       ELSE Get(rateLimitRules, "default")

(***************************************************************************)
(* Bounds of the model.  A run of the limiter stays inside one envelope:   *)
(* a number of requests in flight at once, of evaluations, clock advances, *)
(* administrative calls and store failures, over a set of paths.           *)
(***************************************************************************)
MaxPathLen == 6
\* Burst: concurrent evaluations of one key while time passes.
BurstInFlight == 2
BurstEvals == 5
BurstTicks == 1
\* Long: one evaluation at a time, across window boundaries.
LongEvals == 5
LongTicks == 2
\* Login: one evaluation at a time on the login path, past its limit of five.
LoginEvals == 6
LoginTicks == 1
\* Status: one evaluation at a time with an administrative call.
StatusEvals == 4
StatusTicks == 1
StatusAdmin == 1
\* Abort: one evaluation at a time, one store call failing.
AbortEvals == 4
AbortFails == 1
\* Mix: concurrent evaluations, administrative calls, a store failure.
MixInFlight == 2
MixEvals == 2
MixTicks == 1
MixAdmin == 2
MixFails == 1
\* Keys: two paths, one evaluation at a time, an administrative call, a failure.
KeysEvals == 2
KeysTicks == 1
KeysAdmin == 1
KeysFails == 1
\* Retry: one evaluation at a time on the register path, half a window apart.
RetryEvals == 5
RetryTicks == 2
\* Envelopes of the circuit-breaker runs.
DownInFlight == 2
DownReqs == 2
DownProbes == 2
DownTicks == 1
DownFlips == 1
DownResets == 1
DownRegs == 1

RecoverReqs == 2
RecoverProbes == 3
RecoverTicks == 2
RecoverFlips == 2

HangReqs == 2
HangProbes == 2
HangTicks == 2
HangFlips == 1

BothReqs == 2
BothProbes == 2
BothFlips == 1
BothResets == 1
BothRegs == 1

\* Trial: concurrent requests to a breaker that opens and becomes HalfOpen.
TrialInFlight == 2
TrialReqs == 3
TrialProbes == 2
TrialTicks == 1
TrialFlips == 2

\* Math.max(a, b)
MathMax(a, b) == IF a >= b THEN a ELSE b

\* The clock starts one longest window after the epoch, so that now - windowMs
\* is never negative (Date.now() is far larger than any window).
StartClock == 60 * 60 * 1000
\* Clock advances: one millisecond, and one hour (the longest window of the paths).
TickSteps == {1, 60 * 60 * 1000}

IPs == {"ip1"}
PathRegister == <<"/", "api", "/", "auth", "/", "register">>
PathLogin == <<"/", "api", "/", "auth", "/", "login">>
LimPaths == {PathRegister, PathLogin}
Keys == IPs \X LimPaths
Slots == 1..MathMax(BurstInFlight, MixInFlight)

\* What a run may still do: evaluations in flight and to start, clock advances,
\* administrative calls and store failures, on which paths; and of the proxy,
\* requests to start, calls of fire(), changes of health, manual resets and
\* registrations, on which services.
Budget(inFlight, evals, ticks, admin, fails, paths, reqs, probes, flips, resets, regs, services) ==
  [inFlight |-> inFlight, evals |-> evals, ticks |-> ticks, admin |-> admin,
   fails |-> fails, paths |-> paths, reqs |-> reqs, probes |-> probes, flips |-> flips,
   resets |-> resets, regs |-> regs, services |-> services]

Envelope(inFlight, evals, ticks, admin, fails, paths) ==
  Budget(inFlight, evals, ticks, admin, fails, paths, 0, 0, 0, 0, 0, {})

BreakerEnvelope(inFlight, reqs, probes, ticks, flips, resets, regs, services) ==
  Budget(inFlight, 0, ticks, 0, 0, {}, reqs, probes, flips, resets, regs, services)

Envelopes ==
  {Envelope(BurstInFlight, BurstEvals, BurstTicks, 0, 0, {PathRegister}),
   Envelope(1, LongEvals, LongTicks, 0, 0, {PathRegister}),
   Envelope(1, LoginEvals, LoginTicks, 0, 0, {PathLogin}),
   Envelope(1, StatusEvals, StatusTicks, StatusAdmin, 0, {PathRegister}),
   Envelope(1, AbortEvals, 0, 0, AbortFails, {PathRegister}),
   Envelope(MixInFlight, MixEvals, MixTicks, MixAdmin, MixFails, {PathRegister}),
   Envelope(1, KeysEvals, KeysTicks, KeysAdmin, KeysFails, LimPaths)}

BreakerEnvelopes ==
  {BreakerEnvelope(DownInFlight, DownReqs, DownProbes, DownTicks, DownFlips, DownResets, DownRegs,
                   {"notification"}),
   BreakerEnvelope(1, RecoverReqs, RecoverProbes, RecoverTicks, RecoverFlips, 0, 0, {"auth"}),
   BreakerEnvelope(1, HangReqs, HangProbes, HangTicks, HangFlips, 0, 0, {"auth"}),
   BreakerEnvelope(1, BothReqs, BothProbes, 0, BothFlips, BothResets, BothRegs,
                   {"auth", "notification"})}

\* The traffic of the runs in which recovery is followed to its end.
LiveReqs == 2
LiveProbes == 3
LiveTicks == 1
LiveFlips == 2
LiveEnvelopes ==
  {BreakerEnvelope(1, LiveReqs, LiveProbes, LiveTicks, LiveFlips, 0, 0, {"auth"})}

ReqSlots == 1..DownInFlight

\* A key without a deadline (no EXPIRE applied, or the key does not exist).
NoTTL == -1

VARIABLES
  rpath,      \* getRateLimitRule: the path of the last call
  rres,       \* getRateLimitRule: the value it returned
  clock,      \* wall clock in milliseconds (Date.now(), and the store's clock)
  store,      \* the store: key -> members of its sorted set, <<score, nonce>>
  ttl,        \* the store: key -> expiry deadline in ms, or NoTTL
  ev,         \* slot -> the evaluation in flight in it
  adm,        \* the administrative call in flight (status or reset)
  hist,       \* key -> the completed evaluations of the key, in order of completion
  rst,        \* key -> whether a reset was applied, and whether one is the latest event
  bud,        \* what is left of the envelope of the run
  circuitBreakers, \* the registry: service name -> its breaker
  health,     \* service name -> whether the upstream answers, refuses or hangs
  req,        \* slot -> the proxied request in flight in it
  bhist,      \* what became of the proxied requests, in order of completion
  trace,      \* service name -> the bookkeeping of its breaker
  gw          \* the request on its way through the middleware chain

ruleVars == <<rpath, rres>>
limVars == <<clock, store, ttl, ev, adm, hist, rst, bud>>
brkVars == <<circuitBreakers, health, req, bhist, trace>>
gwVars == <<gw>>
vars == <<rpath, rres, clock, store, ttl, ev, adm, hist, rst, bud,
          circuitBreakers, health, req, bhist, trace, gw>>

(***************************************************************************)
(* Arithmetic of the limiter.                                              *)
(***************************************************************************)
\* Math.ceil(a / b) for b > 0 and any integer a.
CeilDiv(a, b) == -((-a) \div b)

\* The fields the limiter destructures from the rule of a path.
RuleWindowMs(path) == Get(getRateLimitRule(path), "windowMs").v
RuleMaxRequests(path) == Get(getRateLimitRule(path), "maxRequests").v

(***************************************************************************)
(* The store's sorted-set commands, on the members of one key.             *)
(***************************************************************************)
\* ZREMRANGEBYSCORE key lo hi: the members left.
ZRemRangeByScore(members, lo, hi) == {m \in members : ~(lo <= m[1] /\ m[1] <= hi)}

\* ZCARD key
ZCard(members) == Cardinality(members)

\* A ZADD that stores nothing.
ZAdd_Nothing(members, m) == members

\* ZADD key score member, the member being <<score, nonce>>.
ZAdd(members, m) == members \cup {m}

\* ZREM key member
ZRem(members, m) == members \ {m}

\* ZRANGE key 0 0 WITHSCORES: the scores of the lowest-scored member (none or one).
ZRangeFirstScore(members) == {m[1] : m \in {x \in members : \A y \in members : x[1] <= y[1]}}

\* A key whose set is empty does not exist and has no deadline.
TtlAfter(members, old) == IF members = {} THEN NoTTL ELSE old

\* Keys whose deadline has passed at time t no longer exist.
Expired(k, t) == ttl[k] # NoTTL /\ t > ttl[k]

(***************************************************************************)
(* The rate limiter middleware (createRateLimiter).                        *)
(***************************************************************************)
NoHeaders == [h \in {} |-> 0]

IdleEv ==
  [pc |-> "idle", ip |-> "", path |-> <<>>, now |-> 0, windowMs |-> 0,
   maxRequests |-> 0, member |-> <<0, 0>>, count |-> 0, retryAfter |-> 0,
   afterReset |-> "none", overlapped |-> FALSE]

KeyOf(e) == <<e.ip, e.path>>

\* Math.random(): every draw differs from every other draw.  The draw of the ZADD of
\* an evaluation is numbered 2n, n the evaluations left to the run, that of its ZREM 2n + 1.
ZAddDraw(n) == 2 * n
ZRemDraw(addDraw) == addDraw + 1

InFlight(k) == {q \in Slots : ev[q].pc # "idle" /\ KeyOf(ev[q]) = k}

\* A request is handled in the lowest-numbered slot that is free (the slots are
\* interchangeable places for requests in flight).
FirstFreeSlot ==
  IF \A q \in Slots : ev[q].pc # "idle" THEN 0
  ELSE CHOOSE q \in Slots : ev[q].pc = "idle" /\ \A r \in Slots : ev[r].pc = "idle" => q <= r

\* if (currentRequests >= maxRequests), with > written for >=.
LimitExceeded_Off(count, maxRequests) == count > maxRequests

\* if (currentRequests >= maxRequests)
LimitExceeded(count, maxRequests) == count >= maxRequests

\* windowStart with the window forgotten: everything up to now is pruned.
WindowStart_Now(now, windowMs) == now

\* const windowStart = now - windowMs
WindowStart(now, windowMs) == now - windowMs

\* Math.ceil(windowMs / 1000), the seconds given to EXPIRE
ExpireSeconds(windowMs) == CeilDiv(windowMs, 1000)

\* retryAfter: the default Math.ceil(windowMs / 1000), replaced by the time to the
\* expiry of the oldest member when ZRANGE returned one (member and score).
RetryAfterOf(oldest, windowMs, now) ==
  IF oldest = {} THEN CeilDiv(windowMs, 1000)
  ELSE LET oldestTimestamp == CHOOSE s \in oldest : TRUE
       IN CeilDiv(oldestTimestamp + windowMs - now, 1000)

\* res.set({...}) of a rejection
RejectHeaders(e, retryAfter) ==
  ("X-RateLimit-Limit" :> e.maxRequests) @@ ("X-RateLimit-Remaining" :> 0) @@
  ("X-RateLimit-Reset" :> e.now + e.windowMs) @@ ("Retry-After" :> retryAfter)

\* The headers of an admitted request with remaining not reduced by the request itself.
AdmitHeaders_NoSelf(e) ==
  ("X-RateLimit-Limit" :> e.maxRequests) @@
  ("X-RateLimit-Remaining" :> MathMax(0, e.maxRequests - e.count)) @@
  ("X-RateLimit-Reset" :> e.now + e.windowMs)

\* res.set({...}) of an admitted request
AdmitHeaders(e) ==
  ("X-RateLimit-Limit" :> e.maxRequests) @@
  ("X-RateLimit-Remaining" :> MathMax(0, e.maxRequests - e.count - 1)) @@
  ("X-RateLimit-Reset" :> e.now + e.windowMs)

\* What the evaluation e did to its request: the response status set by the limiter
\* (0 when it set none), the headers, the body's retryAfter and the calls of next().
Outcome(e, status, headers, retryAfter, nextCalls, failOpen) ==
  [start |-> e.now, end |-> clock, status |-> status, headers |-> headers,
   retryAfter |-> retryAfter, nextCalls |-> nextCalls, failOpen |-> failOpen,
   member |-> e.member, count |-> e.count, maxRequests |-> e.maxRequests,
   windowMs |-> e.windowMs, afterReset |-> e.afterReset, overlapped |-> e.overlapped]

\* return res.status(429).json({..., retryAfter})
Rejected(e, retryAfter) ==
  Outcome(e, 429, RejectHeaders(e, retryAfter), retryAfter, 0, FALSE)

\* res.set(...); next()
Admitted(e) == Outcome(e, 0, AdmitHeaders(e), 0, 1, FALSE)

\* A catch block that answers the store error instead of passing the request on.
FailedOpen_Answer(e) == Outcome(e, 500, NoHeaders, 0, 0, TRUE)

\* catch (error) { logger.error(...); next(); }
FailedOpen(e) == Outcome(e, 0, NoHeaders, 0, 1, TRUE)

\* Lines 26-57: the request enters the limiter; the rule, the key, now and the
\* member of the ZADD are fixed and the pipeline is built.
RlStart(p, ip, path) ==
  /\ ev[p].pc = "idle"
  /\ p = FirstFreeSlot
  /\ bud.evals > 0
  /\ p <= bud.inFlight
  /\ path \in bud.paths
  /\ LET k == <<ip, path>>
         busy == InFlight(k) # {}
     IN /\ ev' = [q \in Slots |->
                    IF q = p
                    THEN [pc |-> "zremrangebyscore", ip |-> ip, path |-> path,
                          now |-> clock, windowMs |-> RuleWindowMs(path),
                          maxRequests |-> RuleMaxRequests(path),
                          member |-> <<clock, ZAddDraw(bud.evals)>>, count |-> 0, retryAfter |-> 0,
                          afterReset |-> rst[k].mark, overlapped |-> busy]
                    ELSE IF q \in InFlight(k) THEN [ev[q] EXCEPT !.overlapped = TRUE]
                    ELSE ev[q]]
        /\ rst' = [rst EXCEPT ![k].mark = "none"]
  /\ bud' = [bud EXCEPT !.evals = @ - 1]
  /\ UNCHANGED <<clock, store, ttl, adm, hist, ruleVars, brkVars, gwVars>>

\* Pipeline command 1: pipeline.zremrangebyscore(key, 0, windowStart)
RlPrune(p) ==
  /\ ev[p].pc = "zremrangebyscore"
  /\ LET k == KeyOf(ev[p])
         left == ZRemRangeByScore(store[k], 0, WindowStart(ev[p].now, ev[p].windowMs))
     IN /\ store' = [store EXCEPT ![k] = left]
        /\ ttl' = [ttl EXCEPT ![k] = TtlAfter(left, @)]
  /\ ev' = [ev EXCEPT ![p].pc = "zcard"]
  /\ UNCHANGED <<clock, adm, hist, rst, bud, ruleVars, brkVars, gwVars>>

\* Pipeline command 2: pipeline.zcard(key)
RlCount(p) ==
  /\ ev[p].pc = "zcard"
  /\ ev' = [ev EXCEPT ![p].pc = "zadd", ![p].count = ZCard(store[KeyOf(ev[p])])]
  /\ UNCHANGED <<clock, store, ttl, adm, hist, rst, bud, ruleVars, brkVars, gwVars>>

\* Pipeline command 3: pipeline.zadd(key, now, `${now}-${Math.random()}`)
RlAdd(p) ==
  /\ ev[p].pc = "zadd"
  /\ store' = [store EXCEPT ![KeyOf(ev[p])] = ZAdd(@, ev[p].member)]
  /\ ev' = [ev EXCEPT ![p].pc = "expire"]
  /\ UNCHANGED <<clock, ttl, adm, hist, rst, bud, ruleVars, brkVars, gwVars>>

\* Pipeline command 4: pipeline.expire(key, Math.ceil(windowMs / 1000)); then the
\* pipeline resolves and lines 62-105 run: admit with headers and next(), or go on
\* to the rejection.
RlExpire(p) ==
  /\ ev[p].pc = "expire"
  /\ LET k == KeyOf(ev[p])
     IN /\ ttl' = [ttl EXCEPT ![k] = IF store[k] = {} THEN NoTTL
                                    ELSE clock + ExpireSeconds(ev[p].windowMs) * 1000]
        /\ IF LimitExceeded(ev[p].count, ev[p].maxRequests)
           THEN /\ ev' = [ev EXCEPT ![p].pc = "zrange"]
                /\ hist' = hist
           ELSE /\ ev' = [ev EXCEPT ![p] = IdleEv]
                /\ hist' = [hist EXCEPT ![k] = Append(@, Admitted(ev[p]))]
  /\ UNCHANGED <<clock, store, adm, rst, bud, ruleVars, brkVars, gwVars>>

\* Lines 68-74: redis.zrange(key, 0, 0, "WITHSCORES") and the retryAfter computed
\* from it.
RlOldest(p) ==
  /\ ev[p].pc = "zrange"
  /\ ev' = [ev EXCEPT ![p].pc = "zrem",
                      ![p].retryAfter = RetryAfterOf(ZRangeFirstScore(store[KeyOf(ev[p])]),
                                                     ev[p].windowMs, ev[p].now)]
  /\ UNCHANGED <<clock, store, ttl, adm, hist, rst, bud, ruleVars, brkVars, gwVars>>

\* `${now}-${Math.random()}` of line 77: a new draw, not the member of line 54.
RollbackMember(e, draw) == <<e.now, draw>>

\* Lines 77-94: redis.zrem(key, `${now}-${Math.random()}`), the headers and the 429.
RlRemoveAdded(p) ==
  /\ ev[p].pc = "zrem"
  /\ LET k == KeyOf(ev[p])
         left == ZRem(store[k], RollbackMember(ev[p], ZRemDraw(ev[p].member[2])))
     IN /\ store' = [store EXCEPT ![k] = left]
        /\ ttl' = [ttl EXCEPT ![k] = TtlAfter(left, @)]
        /\ hist' = [hist EXCEPT ![k] = Append(@, Rejected(ev[p], ev[p].retryAfter))]
  /\ ev' = [ev EXCEPT ![p] = IdleEv]
  /\ UNCHANGED <<clock, adm, rst, bud, ruleVars, brkVars, gwVars>>

\* Lines 106-112: an awaited store call rejects (the pipeline after any number of
\* its commands, the ZRANGE or the ZREM); the catch block lets the request pass.
RlStoreFails(p) ==
  /\ ev[p].pc \in {"zremrangebyscore", "zcard", "zadd", "expire", "zrange", "zrem"}
  /\ bud.fails > 0
  /\ bud' = [bud EXCEPT !.fails = @ - 1]
  /\ hist' = [hist EXCEPT ![KeyOf(ev[p])] = Append(@, FailedOpen(ev[p]))]
  /\ ev' = [ev EXCEPT ![p] = IdleEv]
  /\ UNCHANGED <<clock, store, ttl, adm, rst, ruleVars, brkVars, gwVars>>

(***************************************************************************)
(* Administrative calls: getRateLimitStatus and resetRateLimit.            *)
(***************************************************************************)
PathAll == <<"*">>

NoResult == [ok |-> FALSE, limit |-> 0, current |-> 0, remaining |-> 0, resetAt |-> 0]

IdleAdm ==
  [pc |-> "idle", ip |-> "", path |-> <<>>, now |-> 0, windowMs |-> 0,
   maxRequests |-> 0, keys |-> {}, pruned |-> 0, result |-> NoResult]

\* The object getRateLimitStatus returns.
StatusResult(a, currentRequests) ==
  [ok |-> TRUE, limit |-> a.maxRequests, current |-> currentRequests,
   remaining |-> MathMax(0, a.maxRequests - currentRequests),
   resetAt |-> a.now + a.windowMs]

\* Lines 168-173: getRateLimitStatus(ip, path) resolves the rule and reads the clock.
StStart(ip, path) ==
  /\ adm.pc = "idle"
  /\ path \in bud.paths
  /\ bud.admin > 0
  /\ bud' = [bud EXCEPT !.admin = @ - 1]
  /\ adm' = [IdleAdm EXCEPT !.pc = "st_zremrangebyscore", !.ip = ip, !.path = path,
                            !.now = clock, !.windowMs = RuleWindowMs(path),
                            !.maxRequests = RuleMaxRequests(path)]
  /\ UNCHANGED <<clock, store, ttl, ev, hist, rst, ruleVars, brkVars, gwVars>>

\* Line 176: await redis.zremrangebyscore(key, 0, windowStart)
StPrune ==
  /\ adm.pc = "st_zremrangebyscore"
  /\ LET k == KeyOf(adm)
         left == ZRemRangeByScore(store[k], 0, WindowStart(adm.now, adm.windowMs))
     IN /\ store' = [store EXCEPT ![k] = left]
        /\ ttl' = [ttl EXCEPT ![k] = TtlAfter(left, @)]
  /\ adm' = [adm EXCEPT !.pc = "st_zcard",
                        !.pruned = Cardinality(store[KeyOf(adm)]) -
                                   Cardinality(ZRemRangeByScore(store[KeyOf(adm)], 0,
                                                 WindowStart(adm.now, adm.windowMs)))]
  /\ UNCHANGED <<clock, ev, hist, rst, bud, ruleVars, brkVars, gwVars>>

\* Lines 179-188: await redis.zcard(key) and the object returned.
StCount ==
  /\ adm.pc = "st_zcard"
  /\ adm' = [adm EXCEPT !.pc = "idle",
                        !.result = StatusResult(adm, ZCard(store[KeyOf(adm)]))]
  /\ UNCHANGED <<clock, store, ttl, ev, hist, rst, bud, ruleVars, brkVars, gwVars>>

\* A reset that deletes nothing.
ResetMembers_Keep(members) == members

\* redis.del(key): the members the key is left with.
ResetMembers(members) == {}

\* The store after DEL of the keys ks.
DelKeys(st, ks) == [k \in Keys |-> IF k \in ks THEN ResetMembers(st[k]) ELSE st[k]]

\* The ghost record of a reset of the keys ks: applied, and the latest event of the
\* key ("busy" when an evaluation of the key is in flight at that moment).
MarkReset(ks) ==
  [k \in Keys |-> IF k \in ks
                  THEN [applied |-> TRUE,
                        mark |-> IF InFlight(k) = {} THEN "clean" ELSE "busy"]
                  ELSE rst[k]]

\* Lines 150-156: resetRateLimit(ip, path) for one path: redis.del(key).
RsDel(ip, path) ==
  /\ adm.pc = "idle"
  /\ path \in bud.paths
  /\ bud.admin > 0
  /\ bud' = [bud EXCEPT !.admin = @ - 1]
  /\ LET k == <<ip, path>>
         st == DelKeys(store, {k})
     IN /\ store' = st
        /\ ttl' = [q \in Keys |-> TtlAfter(st[q], ttl[q])]
        /\ rst' = MarkReset({k})
  /\ adm' = [IdleAdm EXCEPT !.ip = ip, !.path = path, !.result.ok = TRUE]
  /\ UNCHANGED <<clock, ev, hist, ruleVars, brkVars, gwVars>>

\* Line 144: resetRateLimit(ip, "*"): redis.keys(`rate_limit:${ip}:*`)
RsKeys(ip) ==
  /\ adm.pc = "idle"
  /\ bud.admin > 0
  /\ bud' = [bud EXCEPT !.admin = @ - 1]
  /\ adm' = [IdleAdm EXCEPT !.pc = "rs_del", !.ip = ip, !.path = PathAll,
                            !.keys = {k \in Keys : k[1] = ip /\ store[k] # {}}]
  /\ UNCHANGED <<clock, store, ttl, ev, hist, rst, ruleVars, brkVars, gwVars>>

\* Lines 145-156: if (keys.length > 0) await redis.del(...keys); return true
RsDelAll ==
  /\ adm.pc = "rs_del"
  /\ LET st == DelKeys(store, adm.keys)
     IN /\ store' = st
        /\ ttl' = [q \in Keys |-> TtlAfter(st[q], ttl[q])]
        /\ rst' = MarkReset(adm.keys)
  /\ adm' = [adm EXCEPT !.pc = "idle", !.result.ok = TRUE]
  /\ UNCHANGED <<clock, ev, hist, bud, ruleVars, brkVars, gwVars>>

\* Lines 157-160 and 189-192: a store call of an administrative function rejects;
\* resetRateLimit returns false, getRateLimitStatus returns null.
AdmStoreFails ==
  /\ adm.pc \in {"st_zremrangebyscore", "st_zcard", "rs_del"}
  /\ bud.fails > 0
  /\ bud' = [bud EXCEPT !.fails = @ - 1]
  /\ adm' = [adm EXCEPT !.pc = "idle", !.result = NoResult]
  /\ UNCHANGED <<clock, store, ttl, ev, hist, rst, ruleVars, brkVars, gwVars>>

(***************************************************************************)
(* Circuit breakers: config/circuitBreaker.js, middleware/circuitBreaker.js *)
(* and middleware/circuitBreakerProxy.js.  The breaker itself is the        *)
(* opossum library, which is not part of the sources: its transitions are   *)
(* those of the design's section 4.2.                                       *)
(***************************************************************************)
\* const circuitBreakerOptions = {...}
circuitBreakerOptions ==
  [timeout |-> 10000, errorThresholdPercentage |-> 30, resetTimeout |-> 30000,
   rollingCountTimeout |-> 10000, rollingCountBuckets |-> 10, volumeThreshold |-> 1]

\* export const serviceCircuitBreakerOptions = {...}
serviceCircuitBreakerOptions ==
  ("auth" :> [timeout |-> 5000, errorThresholdPercentage |-> 50, resetTimeout |-> 20000]) @@
  ("post" :> [timeout |-> 10000, errorThresholdPercentage |-> 50, resetTimeout |-> 30000]) @@
  ("comment" :> [timeout |-> 10000, errorThresholdPercentage |-> 50, resetTimeout |-> 30000]) @@
  ("media" :> [timeout |-> 30000, errorThresholdPercentage |-> 60, resetTimeout |-> 45000])

\* The empty options object.
NoOptions == [o \in {} |-> 0]

\* No service has options of its own.
ServiceOptions_None(serviceName) == NoOptions

\* serviceCircuitBreakerOptions[serviceName] || {}
ServiceOptions(serviceName) ==
  IF serviceName \in DOMAIN serviceCircuitBreakerOptions
  THEN serviceCircuitBreakerOptions[serviceName] ELSE NoOptions

\* The options of the service are never applied.
BreakerOptions_Defaults(serviceName) == circuitBreakerOptions

\* The options of a breaker once getServiceCircuitBreaker has applied the service's
\* timeout, errorThresholdPercentage and resetTimeout over the defaults.
BreakerOptions(serviceName) ==
  LET options == ServiceOptions(serviceName)
      Applied(field) == IF field \in DOMAIN options /\ options[field] # 0
                        THEN options[field] ELSE circuitBreakerOptions[field]
  IN [circuitBreakerOptions EXCEPT !.timeout = Applied("timeout"),
                                   !.errorThresholdPercentage = Applied("errorThresholdPercentage"),
                                   !.resetTimeout = Applied("resetTimeout")]

\* The rolling counters: a window of buckets, the current one first.
Counters == {"fires", "failures", "successes", "timeouts", "rejects"}
EmptyBucket == [c \in Counters |-> 0]

RECURSIVE NewWindow(_)
NewWindow(n) == IF n = 0 THEN <<>> ELSE <<EmptyBucket>> \o NewWindow(n - 1)

Increment(window, c) == [window EXCEPT ![1][c] = @ + 1]

RECURSIVE StatFrom(_, _, _)
StatFrom(window, c, i) ==
  IF i > Len(window) THEN 0 ELSE window[i][c] + StatFrom(window, c, i + 1)
Stat(window, c) == StatFrom(window, c, 1)

\* The window after n bucket intervals: a new bucket enters, the oldest leaves.
RotateBucket(window) == <<EmptyBucket>> \o SubSeq(window, 1, Len(window) - 1)
RECURSIVE Rotate(_, _)
Rotate(window, n) ==
  IF n <= 0 THEN window
  ELSE IF n >= Len(window) THEN NewWindow(Len(window))
  ELSE Rotate(RotateBucket(window), n - 1)

\* Math.floor(rollingCountTimeout / rollingCountBuckets)
BucketInterval(options) == options.rollingCountTimeout \div options.rollingCountBuckets

\* No timer armed.
NoTimer == NoTTL

\* new CircuitBreaker(requestFunction, {...circuitBreakerOptions, name}) with the
\* service's options applied: Closed, nothing counted, no call in flight.
NewBreaker(serviceName, serviceUrl, now) ==
  [serviceUrl |-> serviceUrl,
   options |-> BreakerOptions(serviceName), state |-> "closed", pendingClose |-> FALSE,
   window |-> NewWindow(BreakerOptions(serviceName).rollingCountBuckets),
   createdAt |-> now, resetAt |-> NoTimer, probes |-> <<>>]

\* breaker.opened, breaker.halfOpen
Opened(b) == b.state = "open"
HalfOpen(b) == b.state = "halfOpen"

\* breaker.open(): Open, and the reset timer is armed.
BreakerOpen(b, now) ==
  IF Opened(b) THEN b
  ELSE [b EXCEPT !.state = "open", !.pendingClose = FALSE,
                 !.resetAt = now + b.options.resetTimeout]

\* breaker.close(): Closed, and the reset timer is cleared.
BreakerClose(b) ==
  IF b.state = "closed" THEN b
  ELSE [b EXCEPT !.state = "closed", !.pendingClose = FALSE, !.resetAt = NoTimer]

\* The reset timer of an Open breaker: HalfOpen, one call allowed.
BreakerHalfOpen(b) ==
  [b EXCEPT !.state = "halfOpen", !.pendingClose = TRUE, !.resetAt = NoTimer]

\* Whether a fire() is turned away: the breaker is Open, or HalfOpen with its one
\* call already given out.
FireRejected(b) == b.state # "closed" /\ ~b.pendingClose

\* breaker.fire(options): counted; turned away, or a call of requestFunction
\* starts, timed by the breaker's timeout (requestFunction sets axios' own to 0).
BreakerFire(b, now) ==
  LET counted == [b EXCEPT !.window = Increment(@, "fires")]
  IN IF FireRejected(b)
     THEN [counted EXCEPT !.window = Increment(@, "rejects")]
     ELSE [counted EXCEPT !.pendingClose = FALSE, !.probes = Append(@, now)]

\* Closed -> Open: volume >= volumeThreshold and
\* (failures + timeouts) / fires >= errorThresholdPercentage.
ErrorRateTrips(window, options) ==
  /\ Stat(window, "fires") >= options.volumeThreshold
  /\ (Stat(window, "failures") + Stat(window, "timeouts")) * 100
       >= options.errorThresholdPercentage * Stat(window, "fires")

\* recordOutcome(Success): counted; HalfOpen -> Closed.
RecordSuccess(b) ==
  LET counted == [b EXCEPT !.window = Increment(@, "successes")]
  IN IF HalfOpen(b) THEN BreakerClose(counted) ELSE counted

\* recordOutcome(Failure | Timeout): counted; HalfOpen -> Open, and Closed -> Open
\* when the error rate trips.
RecordFailure(b, counter, now) ==
  LET counted == [b EXCEPT !.window = Increment(@, counter)]
  IN IF HalfOpen(b) \/ ErrorRateTrips(counted.window, b.options)
     THEN BreakerOpen(counted, now) ELSE counted

RemoveAt(s, i) == SubSeq(s, 1, i - 1) \o SubSeq(s, i + 1, Len(s))

Services == {"auth", "notification"}
Registered == DOMAIN circuitBreakers

\* A request in no stage of the proxy; sentAt is the time at which the proxy
\* sent it to the upstream, arrivedPending whether a call of fire() was under
\* way when it arrived, resetOpens the number of openings counted at the manual
\* reset that it is the first request to follow (NoTimer if it follows none),
\* headersSent is res.headersSent.
IdleReq ==
  [pc |-> "idle", svc |-> "", ws |-> FALSE, arrivedOpen |-> FALSE, arrivedPending |-> FALSE,
   resetOpens |-> NoTimer, sentAt |-> NoTimer, headersSent |-> FALSE]
FirstFreeReq ==
  LET free == {q \in ReqSlots : req[q].pc = "idle"}
  IN IF free = {} THEN 0 ELSE CHOOSE q \in free : \A o \in free : q <= o

\* createFallbackResponse(serviceName): the payload of a 503.
createFallbackResponse(serviceName, now) ==
  [success |-> FALSE, error |-> "SERVICE_UNAVAILABLE",
   message |-> <<serviceName, " is temporarily unavailable. Please try again later.">>,
   service |-> serviceName, timestamp |-> now]

\* The payload of a 502: err.code || "PROXY_ERROR", the code being that of a
\* refused connection.
ProxyErrorBody(serviceName) ==
  [success |-> FALSE,
   message |-> <<"Gateway proxy error: ", serviceName, " service unavailable">>,
   error |-> "ECONNREFUSED"]

\* The payload of a response that the upstream wrote.
UpstreamBody(serviceName) == [from |-> serviceName]

\* What became of a request: the status and payload answered, whether the breaker
\* was Open when it arrived, the state of the breaker when it was answered,
\* whether it was passed to the upstream, whether the
\* proxy reported an error, the calls of fire() made for it, the number of
\* responses written, whether it was the first request after a manual reset,
\* and whether the breaker had opened again since that reset.
Answer(r, status, body, forwarded, failed, fired) ==
  [svc |-> r.svc, ws |-> r.ws, arrivedOpen |-> r.arrivedOpen,
   state |-> circuitBreakers[r.svc].state, status |-> status,
   body |-> body, forwarded |-> forwarded, failed |-> failed, fired |-> fired,
   responses |-> IF status = 0 THEN 0 ELSE IF r.headersSent THEN 2 ELSE 1,
   afterReset |-> r.resetOpens # NoTimer,
   reopened |-> r.resetOpens # NoTimer /\ trace[r.svc].opens > r.resetOpens]

\* The breaker's bookkeeping of the run: transitions to Open, manual
\* resets, firings of the reset timer, requests, whether the health of the
\* service changed after a request for it had begun, and the failures and
\* timeouts recorded, the time at which the reset timer fired last, the manual
\* resets that returned false, and the openings counted at a manual reset that
\* no request has followed yet.
NoTrace ==
  [opens |-> 0, resets |-> 0, halfOpens |-> 0, calls |-> 0, steady |-> TRUE, errors |-> 0,
   halfOpenAt |-> NoTimer, falseResets |-> 0, resetOpens |-> NoTimer]

\* The failures and timeouts in the rolling window.
Errors(window) == Stat(window, "failures") + Stat(window, "timeouts")

\* The bookkeeping after a call has settled: one more opening when the breaker
\* opened, one more error when a failure or a timeout was recorded.
Traced(old, new, t) ==
  [t EXCEPT !.opens = IF ~Opened(old) /\ Opened(new) THEN @ + 1 ELSE @,
            !.errors = IF Errors(new.window) > Errors(old.window) THEN @ + 1 ELSE @]

\* Every call builds a new breaker, registered or not.
getServiceCircuitBreaker_Fresh(serviceName, serviceUrl) ==
  (serviceName :> NewBreaker(serviceName, serviceUrl, clock)) @@ circuitBreakers

\* The registered breaker is pointed at the URL of the latest call.
getServiceCircuitBreaker_Retarget(serviceName, serviceUrl) ==
  IF serviceName \in Registered
  THEN [circuitBreakers EXCEPT ![serviceName].serviceUrl = serviceUrl]
  ELSE circuitBreakers @@ (serviceName :> NewBreaker(serviceName, serviceUrl, clock))

\* createCircuitBreakerProxy(serviceName, serviceUrl): getServiceCircuitBreaker
\* returns the registered breaker, or registers a new one.
getServiceCircuitBreaker(serviceName, serviceUrl) ==
  IF serviceName \in Registered THEN circuitBreakers
  ELSE circuitBreakers @@ (serviceName :> NewBreaker(serviceName, serviceUrl, clock))

\* The base URLs passed for a service: the one of its SERVICES entry, and another.
ServiceUrls == {"http://service", "http://elsewhere"}

createCircuitBreakerProxy(s, serviceUrl) ==
  /\ bud.regs > 0
  /\ bud' = [bud EXCEPT !.regs = @ - 1]
  /\ s \in bud.services
  /\ circuitBreakers' = getServiceCircuitBreaker(s, serviceUrl)
  /\ UNCHANGED <<clock, store, ttl, ev, adm, hist, rst, health, req, bhist, trace, ruleVars, gwVars>>

\* The early check of the middleware is skipped for every request.
WrapperRejects_Never(b, isWebSocket) == FALSE

\* The early check of the middleware also turns away a request that arrives
\* while a call of fire() is under way.
WrapperRejects_WhilePending(b, isWebSocket) ==
  ~isWebSocket /\ (Opened(b) \/ b.probes # <<>>)

\* The early check of the middleware: an upgrade request skips it, any other
\* is rejected when breaker.opened
WrapperRejects(b, isWebSocket) == ~isWebSocket /\ Opened(b)

\* The middleware returned by createCircuitBreakerProxy: an upgrade request goes
\* to the proxy unchecked; any other is answered 503 when the breaker is Open and
\* goes to the proxy otherwise.
ProxyWrapper(r, s, isWebSocket) ==
  /\ req[r].pc = "idle" /\ r = FirstFreeReq
  /\ r <= bud.inFlight
  /\ bud.reqs > 0
  /\ bud' = [bud EXCEPT !.reqs = @ - 1]
  /\ s \in Registered /\ s \in bud.services
  /\ trace' = [trace EXCEPT ![s].calls = @ + 1, ![s].resetOpens = NoTimer]
  /\ LET this == [IdleReq EXCEPT !.pc = "proxy", !.svc = s, !.ws = isWebSocket,
                                 !.resetOpens = trace[s].resetOpens,
                                 !.arrivedOpen = Opened(circuitBreakers[s]),
                                 !.arrivedPending = circuitBreakers[s].probes # <<>>]
     IN IF WrapperRejects(circuitBreakers[s], isWebSocket)
        THEN /\ bhist' = Append(bhist, Answer(this, 503, createFallbackResponse(s, clock),
                                              FALSE, FALSE, 0))
             /\ req' = req
        ELSE /\ req' = [req EXCEPT ![r] = this]
             /\ bhist' = bhist
  /\ UNCHANGED <<clock, store, ttl, ev, adm, hist, rst, circuitBreakers, health, ruleVars, gwVars>>

\* A handler writes its response whether or not one was written before.
WritesResponse_Always(headersSent) == TRUE

\* if (!res.headersSent): a handler writes its response only if none was written.
WritesResponse(headersSent) == ~headersSent

\* onProxyReq: an Open breaker destroys the outgoing request and answers 503;
\* otherwise the request goes out to the upstream.
OnProxyReq(r) ==
  /\ req[r].pc = "proxy"
  /\ IF Opened(circuitBreakers[req[r].svc])
     THEN /\ bhist' = IF WritesResponse(req[r].headersSent)
                      THEN Append(bhist, Answer(req[r], 503,
                                                createFallbackResponse(req[r].svc, clock),
                                                FALSE, FALSE, 0))
                      ELSE bhist
          /\ req' = [req EXCEPT ![r].pc = "destroyed", ![r].headersSent = TRUE]
     ELSE /\ req' = [req EXCEPT ![r].pc = "upstream", ![r].sentAt = clock]
          /\ bhist' = bhist
  /\ UNCHANGED <<clock, store, ttl, ev, adm, hist, rst, bud, circuitBreakers, health, trace, ruleVars, gwVars>>

\* A success is tracked only when the random draw says so.
TrackSuccess_SampledOnly(b, statusCode, sampled) ==
  statusCode >= 200 /\ statusCode < 300 /\ sampled

\* A response is tracked whatever its status.
TrackSuccess_AnyStatus(b, statusCode, sampled) == HalfOpen(b) \/ sampled

\* Whether a success is tracked: breaker.halfOpen || Math.random() < 0.1
TrackSuccess(b, statusCode, sampled) ==
  statusCode >= 200 /\ statusCode < 300 /\ (HalfOpen(b) \/ sampled)

\* n calls of breaker.fire, one after the other.
RECURSIVE FireTimes(_, _, _)
FireTimes(b, n, now) == IF n = 0 THEN b ELSE FireTimes(BreakerFire(b, now), n - 1, now)

\* The upstream answers: onProxyRes tracks a 2xx when HalfOpen or sampled, and so
\* does the wrapped res.end of a request that went through the breaker check.
OnProxyRes(r, statusCode, sampledRes, sampledEnd) ==
  /\ req[r].pc = "upstream"
  /\ health[req[r].svc] = "up"
  /\ LET s == req[r].svc
         b == circuitBreakers[s]
         first == IF TrackSuccess(b, statusCode, sampledRes) THEN 1 ELSE 0
         afterRes == FireTimes(b, first, clock)
         second == IF ~req[r].ws /\ TrackSuccess(afterRes, statusCode, sampledEnd) THEN 1 ELSE 0
     IN /\ first + second <= bud.probes
        /\ bud' = [bud EXCEPT !.probes = @ - (first + second)]
        /\ circuitBreakers' = [circuitBreakers EXCEPT ![s] = FireTimes(afterRes, second, clock)]
        /\ bhist' = Append(bhist, Answer(req[r], statusCode, UpstreamBody(s), TRUE, FALSE,
                                         first + second))
  /\ req' = [req EXCEPT ![r] = IdleReq]
  /\ UNCHANGED <<clock, store, ttl, ev, adm, hist, rst, health, trace, ruleVars, gwVars>>

\* The failure of a forwarded call is never tracked.
TrackFailure_Never(b) == FALSE

\* Whether onError tracks the failure: if (!breaker.opened)
TrackFailure(b) == ~Opened(b)

\* onError: the proxy reports an error (the upstream refuses the connection, or
\* onProxyReq has destroyed the outgoing request); the failure is tracked by a
\* fire() unless the breaker is Open, and a request that has no response yet is
\* answered 503 when the breaker is Open and 502 otherwise.
OnError(r) ==
  /\ \/ req[r].pc = "upstream" /\ health[req[r].svc] = "down"
     \/ req[r].pc = "destroyed"
  /\ LET s == req[r].svc
         b == circuitBreakers[s]
         n == IF TrackFailure(b) THEN 1 ELSE 0
         fired == FireTimes(b, n, clock)
     IN /\ n <= bud.probes
        /\ bud' = [bud EXCEPT !.probes = @ - n]
        /\ circuitBreakers' = [circuitBreakers EXCEPT ![s] = fired]
        /\ bhist' = IF ~WritesResponse(req[r].headersSent) THEN bhist
                     ELSE Append(bhist,
                                 IF Opened(fired)
                                 THEN Answer(req[r], 503, createFallbackResponse(s, clock),
                                             TRUE, TRUE, n)
                                 ELSE Answer(req[r], 502, ProxyErrorBody(s), TRUE, TRUE, n))
  /\ req' = [req EXCEPT ![r] = IdleReq]
  /\ UNCHANGED <<clock, store, ttl, ev, adm, hist, rst, health, trace, ruleVars, gwVars>>

\* The outgoing request that onProxyReq destroyed ends without an error being
\* reported to the proxy's handlers.
ProxyReqDestroyed(r) ==
  /\ req[r].pc = "destroyed"
  /\ req' = [req EXCEPT ![r] = IdleReq]
  /\ UNCHANGED <<clock, store, ttl, ev, adm, hist, rst, bud, circuitBreakers, health, bhist, trace, ruleVars, gwVars>>

\* The call is rejected whatever the upstream does.
requestFunction_Rejects(h) == IF h = "hang" THEN "pending" ELSE "rejected"

\* requestFunction: the axios call with baseURL serviceUrl and its own timeout
\* disabled returns the response of an upstream that answers, is rejected by
\* one that refuses the connection, and stays pending otherwise.
requestFunction(h) ==
  CASE h = "up" -> "resolved"
    [] h = "down" -> "rejected"
    [] OTHER -> "pending"

\* The call of requestFunction started by a fire() returns a response.
ProbeSucceeds(s, i) ==
  /\ s \in Registered /\ i \in 1..Len(circuitBreakers[s].probes)
  /\ requestFunction(health[s]) = "resolved"
  /\ LET b == circuitBreakers[s]
         settled == RecordSuccess([b EXCEPT !.probes = RemoveAt(@, i)])
     IN /\ circuitBreakers' = [circuitBreakers EXCEPT ![s] = settled]
        /\ trace' = [trace EXCEPT ![s] = Traced(b, settled, @)]
  /\ UNCHANGED <<clock, store, ttl, ev, adm, hist, rst, bud, health, req, bhist, ruleVars, gwVars>>

\* The call of requestFunction started by a fire() is refused by the upstream.
ProbeFails(s, i) ==
  /\ s \in Registered /\ i \in 1..Len(circuitBreakers[s].probes)
  /\ requestFunction(health[s]) = "rejected"
  /\ LET b == circuitBreakers[s]
         settled == RecordFailure([b EXCEPT !.probes = RemoveAt(@, i)], "failures", clock)
     IN /\ circuitBreakers' = [circuitBreakers EXCEPT ![s] = settled]
        /\ trace' = [trace EXCEPT ![s] = Traced(b, settled, @)]
  /\ UNCHANGED <<clock, store, ttl, ev, adm, hist, rst, bud, health, req, bhist, ruleVars, gwVars>>

\* The breaker's timeout passes before the call started by a fire() has returned.
ProbeTimesOut(s, i) ==
  /\ s \in Registered /\ i \in 1..Len(circuitBreakers[s].probes)
  /\ clock >= circuitBreakers[s].probes[i] + circuitBreakers[s].options.timeout
  /\ LET b == circuitBreakers[s]
         settled == RecordFailure([b EXCEPT !.probes = RemoveAt(@, i)], "timeouts", clock)
     IN /\ circuitBreakers' = [circuitBreakers EXCEPT ![s] = settled]
        /\ trace' = [trace EXCEPT ![s] = Traced(b, settled, @)]
  /\ UNCHANGED <<clock, store, ttl, ev, adm, hist, rst, bud, health, req, bhist, ruleVars, gwVars>>

\* The reset timer of an Open breaker fires.
ResetTimer(s) ==
  /\ s \in Registered
  /\ circuitBreakers[s].resetAt # NoTimer /\ clock >= circuitBreakers[s].resetAt
  /\ circuitBreakers' = [circuitBreakers EXCEPT ![s] = BreakerHalfOpen(@)]
  /\ trace' = [trace EXCEPT ![s].halfOpens = @ + 1, ![s].halfOpenAt = clock]
  /\ UNCHANGED <<clock, store, ttl, ev, adm, hist, rst, bud, health, req, bhist, ruleVars, gwVars>>

\* A reset of one breaker closes every registered breaker.
resetCircuitBreaker_All(s) ==
  /\ bud.resets > 0
  /\ bud' = [bud EXCEPT !.resets = @ - 1]
  /\ s \in bud.services
  /\ circuitBreakers' = [u \in Registered |-> BreakerClose(circuitBreakers[u])]
  /\ trace' = [u \in Services |->
                 IF u \in Registered THEN [trace[u] EXCEPT !.resets = @ + 1] ELSE trace[u]]
  /\ UNCHANGED <<clock, store, ttl, ev, adm, hist, rst, health, req, bhist, ruleVars, gwVars>>

\* A reset of a name without a breaker registers one and returns true.
resetCircuitBreaker_Registers(s) ==
  /\ bud.resets > 0
  /\ bud' = [bud EXCEPT !.resets = @ - 1]
  /\ s \in bud.services
  /\ circuitBreakers' =
       IF s \in Registered THEN [circuitBreakers EXCEPT ![s] = BreakerClose(@)]
       ELSE getServiceCircuitBreaker(s, "http://service")
  /\ trace' = [trace EXCEPT ![s].resets = @ + 1, ![s].resetOpens = trace[s].opens]
  /\ UNCHANGED <<clock, store, ttl, ev, adm, hist, rst, health, req, bhist, ruleVars, gwVars>>

\* resetCircuitBreaker(serviceName): closes a registered breaker and returns true;
\* returns false for any other name.
resetCircuitBreaker(s) ==
  /\ bud.resets > 0
  /\ bud' = [bud EXCEPT !.resets = @ - 1]
  /\ s \in bud.services
  /\ IF s \in Registered
     THEN /\ circuitBreakers' = [circuitBreakers EXCEPT ![s] = BreakerClose(@)]
          /\ trace' = [trace EXCEPT ![s].resets = @ + 1, ![s].resetOpens = trace[s].opens]
     ELSE /\ circuitBreakers' = circuitBreakers
          /\ trace' = [trace EXCEPT ![s].falseResets = @ + 1]
  /\ UNCHANGED <<clock, store, ttl, ev, adm, hist, rst, health, req, bhist, ruleVars, gwVars>>

\* An upstream starts to answer, to refuse connections, or to leave them unanswered.
HealthChange(s, h) ==
  /\ bud.flips > 0
  /\ bud' = [bud EXCEPT !.flips = @ - 1]
  /\ s \in bud.services
  /\ h # health[s]
  /\ health' = [health EXCEPT ![s] = h]
  /\ trace' = [trace EXCEPT ![s].steady = @ /\ trace[s].calls = 0]
  /\ UNCHANGED <<clock, store, ttl, ev, adm, hist, rst, circuitBreakers, req, bhist, ruleVars, gwVars>>

\* The deadlines of the timers armed in the breakers.
Deadlines ==
  UNION {{circuitBreakers[s].resetAt} \ {NoTimer} : s \in Registered} \cup
  UNION {{circuitBreakers[s].probes[i] + circuitBreakers[s].options.timeout :
            i \in 1..Len(circuitBreakers[s].probes)} : s \in Registered}

\* A refused connection is reported before the clock moves on.
Refusing ==
  \E s \in Registered :
    requestFunction(health[s]) = "rejected" /\ circuitBreakers[s].probes # <<>>

\* The bucket intervals of b that end in (from, to].
Rotations(b, from, to) ==
  (to - b.createdAt) \div BucketInterval(b.options) -
  (from - b.createdAt) \div BucketInterval(b.options)

(***************************************************************************)
(* Time.  The store deletes a key as soon as its deadline has passed; the   *)
(* breakers' windows rotate; no timer is passed over.                       *)
(***************************************************************************)
Tick(d) ==
  /\ bud.ticks > 0
  /\ ~Refusing
  /\ \A t \in Deadlines : clock + d <= t
  /\ bud' = [bud EXCEPT !.ticks = @ - 1]
  /\ clock' = clock + d
  /\ store' = [k \in Keys |-> IF Expired(k, clock + d) THEN {} ELSE store[k]]
  /\ ttl' = [k \in Keys |-> IF Expired(k, clock + d) THEN NoTTL ELSE ttl[k]]
  /\ circuitBreakers' =
       [s \in Registered |->
          [circuitBreakers[s] EXCEPT
             !.window = Rotate(@, Rotations(circuitBreakers[s], clock, clock + d))]]
  /\ UNCHANGED <<ev, adm, hist, rst, health, req, bhist, trace, ruleVars, gwVars>>

\* Clock advances of the breaker runs: a millisecond, a bucket interval, and the
\* time left to a timer.
BreakerTickSteps ==
  {BucketInterval(circuitBreakerOptions)} \cup {t - clock : t \in {u \in Deadlines : u > clock}}

(***************************************************************************)
(* The gateway: the middleware chain of one HTTP request, and the dispatch *)
(* of the shared GraphQL path.  A string is the sequence of its pieces      *)
(* (getComments is get, Comment, s), so that includes and toLowerCase work  *)
(* on its content.                                                         *)
(***************************************************************************)
\* String.prototype.includes: the keyword occurs in the text.
Includes(text, keyword) ==
  \E i \in 1..(Len(text) - Len(keyword) + 1) : SubSeq(text, i, i + Len(keyword) - 1) = keyword

\* String.prototype.toLowerCase, piece by piece.
ToLowerCase(text) ==
  LET LowerPiece(c) == CASE c = "Comment" -> "comment"
                         [] c = "Post" -> "post"
                         [] c = "Get" -> "get"
                         [] c = "Create" -> "create"
                         [] c = "Count" -> "count"
                         [] c = "WebSocket" -> "websocket"
                         [] OTHER -> c
  IN [i \in 1..Len(text) |-> LowerPiece(text[i])]

\* The operations of the two GraphQL upstreams: getComments; createComment,
\* deleteComment; commentAdded, commentUpdated, commentDeleted; getPosts,
\* getPost; createPost, deletePost.
CommentQueries == {<<"get", "Comment", "s">>}
CommentMutations == {<<"create", "Comment">>, <<"delete", "Comment">>}
CommentSubscriptions == {<<"comment", "Added">>, <<"comment", "Updated">>, <<"comment", "Deleted">>}
CommentOperations == CommentQueries \cup CommentMutations \cup CommentSubscriptions
PostQueries == {<<"get", "Post", "s">>, <<"get", "Post">>}
PostMutations == {<<"create", "Post">>, <<"delete", "Post">>}
PostOperations == PostQueries \cup PostMutations

\* The dispatcher misses deleteComment.
CommentKeywords_NoDelete ==
  {<<"subscription">>, <<"comment", "Added">>, <<"comment", "Deleted">>,
   <<"comment", "Updated">>, <<"get", "Comment", "s">>, <<"create", "Comment">>}

\* The keywords that the dispatcher looks for in the query: subscription,
\* commentAdded, commentDeleted, commentUpdated, getComments, createComment,
\* deleteComment.
CommentKeywords ==
  {<<"subscription">>, <<"comment", "Added">>, <<"comment", "Deleted">>,
   <<"comment", "Updated">>, <<"get", "Comment", "s">>, <<"create", "Comment">>,
   <<"delete", "Comment">>}

\* The JSON bodies posted to /graphql: an operation of a type with one field,
\* called with a string literal, and an operationName; the empty operationName
\* and the empty literal stand for their absence.
Literals == {<<>>, <<"hello">>, <<"subscription">>, <<"get", "Comment", "s">>}
OperationNames ==
  {<<>>, <<"Get", "Post", "s">>, <<"Create", "Comment">>, <<"comment">>,
   <<"Post", "Comment", "Count">>}
Operation(type, field, literal, operationName) ==
  [type |-> type, field |-> field, literal |-> literal, operationName |-> operationName]
EmptyBody == Operation("", <<>>, <<>>, <<>>)
Bodies ==
  {EmptyBody} \cup
  {Operation("query", f, l, n) : f \in CommentQueries \cup PostQueries,
                                 l \in Literals, n \in OperationNames} \cup
  {Operation("mutation", f, l, n) : f \in CommentMutations \cup PostMutations,
                                    l \in Literals, n \in OperationNames} \cup
  {Operation("subscription", f, l, n) : f \in CommentSubscriptions,
                                        l \in Literals, n \in OperationNames}

\* req.body?.query || "": the text of the operation.
QueryText(body) ==
  IF body = EmptyBody THEN <<>>
  ELSE <<body.type, "{", "{">> \o body.field \o <<"(", "\"">> \o body.literal \o
       <<"\"", ")", "}">>

\* The choice between commentGraphQLHttpProxy and postGraphQLHttpProxy.
GraphQLTarget(body) ==
  IF \/ \E keyword \in CommentKeywords : Includes(QueryText(body), keyword)
     \/ Includes(ToLowerCase(body.operationName), <<"comment">>)
  THEN "comment" ELSE "post"

\* The paths of the requests, and the proxies of the gateway with the upstream
\* that each forwards to.
GwPaths ==
  {"/notifications/socket.io", "/health", "/api/auth", "/api/media", "/graphql", "/other"}
BreakerProxies == {"auth", "media", "comment", "post"}
ProxyUpstream(proxy) ==
  CASE proxy = "commentWs" -> "comment"
    [] proxy = "notificationWs" -> "notification"
    [] OTHER -> proxy

\* req.user before authenticateToken has set it.
NoUser == [userId |-> "", email |-> ""]

\* verifyToken(token): the payload that the auth service signed (userId,
\* username, email), or null for a token that does not verify.
verifyToken(token) ==
  IF token = "valid" THEN [userId |-> "42", email |-> "user@example.com"] ELSE NoUser

\* No request in the gateway.  A request arrives as a 'request' of the server
\* (via "request") or as its 'upgrade' event (via "upgrade"); proxyReq is what
\* the handlers did to the outgoing request, socket the client socket of an
\* upgrade and bridge the upstream that it was piped to; supplied is what the
\* client itself put into the X-User-Id and X-User-Email headers of the request.
IdleGw ==
  [pc |-> "idle", path |-> "", upgrade |-> FALSE, token |-> "none", body |-> EmptyBody,
   proxy |-> "", stages |-> <<>>, status |-> 0, upstream |-> "",
   via |-> "", user |-> NoUser, proxyReq |-> <<>>, socket |-> "none", bridge |-> "",
   supplied |-> NoUser]

\* The X-User-Id and X-User-Email headers that a client sends: none, or those
\* of another user.
ClientIdentities == {NoUser, [userId |-> "1", email |-> "admin@example.com"]}

\* One call on the outgoing request.
ProxyReqCall(op, name, value) == [op |-> op, name |-> name, value |-> value]

\* Only the id of the user is forwarded.
forwardUserHeaders_IdOnly(proxyReq, user) ==
  IF user = NoUser THEN proxyReq
  ELSE proxyReq \o <<ProxyReqCall("setHeader", "X-User-Id", user.userId)>>

\* forwardUserHeaders(proxyReq, req): if (req.user), X-User-Id and X-User-Email
\* are set from it.
forwardUserHeaders(proxyReq, user) ==
  IF user = NoUser THEN proxyReq
  ELSE proxyReq \o <<ProxyReqCall("setHeader", "X-User-Id", user.userId),
                     ProxyReqCall("setHeader", "X-User-Email", user.email)>>

\* restreamBody(proxyReq, req): if (req.body), the body is serialized again,
\* written and the outgoing request ended.
restreamBody(proxyReq, hasBody) ==
  IF ~hasBody THEN proxyReq
  ELSE proxyReq \o <<ProxyReqCall("setHeader", "Content-Type", "application/json"),
                     ProxyReqCall("setHeader", "Content-Length", "byteLength"),
                     ProxyReqCall("write", "", "bodyData"),
                     ProxyReqCall("end", "", "")>>

\* Whether bodyParser.json() has run for the request: on /api/auth, and on
\* /graphql for a request without the upgrade header.
BodyParsed(g) == g.path = "/api/auth" \/ (g.path = "/graphql" /\ ~g.upgrade)

\* The onProxyReq option of each proxy.
ProxyOnProxyReq(proxy, user, hasBody) ==
  CASE proxy = "auth" -> restreamBody(<<>>, hasBody)
    [] proxy = "media" -> forwardUserHeaders(<<>>, user)
    [] proxy \in {"comment", "post"} -> restreamBody(forwardUserHeaders(<<>>, user), hasBody)
    [] OTHER -> forwardUserHeaders(<<>>, user)

\* The request is answered by the gateway itself.
Responded(g, stage, status) ==
  [g EXCEPT !.pc = "done", !.status = status,
            !.stages = IF stage = "" THEN @ ELSE Append(@, stage)]

\* The request goes on to the next middleware.
Passed(g, stage, pc) ==
  [g EXCEPT !.pc = pc, !.stages = IF stage = "" THEN @ ELSE Append(@, stage)]

\* The bodies of the requests for a path: /graphql alone is posted operations.
BodiesOf(path) == IF path = "/graphql" THEN Bodies ELSE {EmptyBody}

\* A request arrives; the global middleware up to the rate limiter has run.
GwReceive(path, upgrade, token, body, supplied) ==
  /\ gw.pc = "idle"
  /\ body \in BodiesOf(path)
  /\ gw' = [IdleGw EXCEPT !.pc = "rateLimit", !.path = path, !.upgrade = upgrade,
                          !.token = token, !.body = body, !.via = "request",
                          !.supplied = supplied]
  /\ UNCHANGED <<ruleVars, limVars, brkVars>>

\* The rate limiter calls next() for a rejected request too.
RateLimiterNext_Always(outcome) == TRUE

\* Whether the rate limiter calls next(): it does when the request is under the
\* limit and when the store failed, and returns after the 429 otherwise.
RateLimiterNext(outcome) == outcome # "reject"

\* app.use(rateLimiter): the limiter evaluates the request.
GwRateLimiter(outcome) ==
  /\ gw.pc = "rateLimit"
  /\ LET stage == IF outcome = "reject" THEN "RateLimitReject" ELSE "RateLimitPass"
         answered == [gw EXCEPT !.status = IF outcome = "reject" THEN 429 ELSE 0,
                                !.stages = Append(@, stage)]
     IN gw' = [answered EXCEPT !.pc = IF RateLimiterNext(outcome) THEN "route" ELSE "done"]
  /\ UNCHANGED <<ruleVars, limVars, brkVars>>

\* The first route that matches the path.
GwRoute ==
  /\ gw.pc = "route"
  /\ gw' = CASE gw.path = "/notifications/socket.io" -> Passed(gw, "", "identity")
             [] gw.path = "/health" -> Responded(gw, "", 200)
             [] gw.path = "/api/auth" -> Passed([gw EXCEPT !.proxy = "auth"], "", "breaker")
             [] gw.path = "/api/media" -> Passed(gw, "", "identity")
             [] gw.path = "/graphql" -> Passed(gw, "", "identity")
             [] OTHER -> Responded(gw, "", 404)
  /\ UNCHANGED <<ruleVars, limVars, brkVars>>

\* A token that does not verify is let through, without a user.
GwAuthenticate_Lenient ==
  /\ gw.pc = "identity"
  /\ LET authenticated == [gw EXCEPT !.user = verifyToken(gw.token)]
     IN gw' = CASE gw.token = "none" -> Responded(gw, "IdentityReject", 401)
                [] gw.path = "/notifications/socket.io" ->
                     Passed([authenticated EXCEPT !.proxy = "notificationWs"],
                            "IdentityPass", "proxy")
                [] gw.path = "/api/media" ->
                     Passed([authenticated EXCEPT !.proxy = "media"], "IdentityPass", "breaker")
                [] OTHER -> Passed(authenticated, "IdentityPass", "dispatch")
  /\ UNCHANGED <<ruleVars, limVars, brkVars>>

\* authenticateToken: 401 without a token, 403 with one that does not verify,
\* next() otherwise.
GwAuthenticate ==
  /\ gw.pc = "identity"
  /\ LET user == verifyToken(gw.token)
         authenticated == [gw EXCEPT !.user = user]
     IN gw' = CASE gw.token = "none" -> Responded(gw, "IdentityReject", 401)
                [] user = NoUser -> Responded(gw, "IdentityReject", 403)
                [] gw.path = "/notifications/socket.io" ->
                     Passed([authenticated EXCEPT !.proxy = "notificationWs"],
                            "IdentityPass", "proxy")
                [] gw.path = "/api/media" ->
                     Passed([authenticated EXCEPT !.proxy = "media"], "IdentityPass", "breaker")
                [] OTHER -> Passed(authenticated, "IdentityPass", "dispatch")
  /\ UNCHANGED <<ruleVars, limVars, brkVars>>

\* The handler of /graphql: a request with the upgrade header goes to
\* commentGraphQLWsProxy, any other to the proxy chosen from its body.
GwDispatch ==
  /\ gw.pc = "dispatch"
  /\ gw' = IF gw.upgrade
           THEN Passed([gw EXCEPT !.proxy = "commentWs"], "", "proxy")
           ELSE Passed([gw EXCEPT !.proxy = GraphQLTarget(gw.body)], "", "breaker")
  /\ UNCHANGED <<ruleVars, limVars, brkVars>>

\* The middleware returned by createCircuitBreakerProxy, the breaker of the
\* service being in the given state.
GwBreakerWrapper(state) ==
  /\ gw.pc = "breaker"
  /\ gw' = IF WrapperRejects([state |-> state], gw.upgrade)
           THEN Responded(gw, "BreakerReject", 503)
           ELSE Passed(gw, IF gw.upgrade THEN "" ELSE "BreakerPass", "proxyReq")
  /\ UNCHANGED <<ruleVars, limVars, brkVars>>

\* onProxyReq of a breaker proxy: the outgoing request is destroyed and 503
\* answered when the breaker is Open, and sent otherwise.
GwOnProxyReq(state) ==
  /\ gw.pc = "proxyReq"
  /\ gw' = IF Opened([state |-> state])
           THEN Responded(gw, "BreakerReject", 503)
           ELSE [Passed(Passed(gw, "BreakerPass", "forwarded"), "Forwarded", "forwarded")
                   EXCEPT !.upstream = ProxyUpstream(gw.proxy),
                          !.proxyReq = ProxyOnProxyReq(gw.proxy, gw.user, BodyParsed(gw))]
  /\ UNCHANGED <<ruleVars, limVars, brkVars>>

\* notificationWsProxy and commentGraphQLWsProxy: createProxyMiddleware alone.
GwPlainProxy ==
  /\ gw.pc = "proxy"
  /\ gw' = [Passed(gw, "Forwarded", "forwarded")
               EXCEPT !.upstream = ProxyUpstream(gw.proxy),
                      !.proxyReq = ProxyOnProxyReq(gw.proxy, gw.user, BodyParsed(gw))]
  /\ UNCHANGED <<ruleVars, limVars, brkVars>>

\* The upstream answers, or the proxy reports an error.
GwUpstream(status) ==
  /\ gw.pc = "forwarded"
  /\ gw' = Responded(gw, "", status)
  /\ UNCHANGED <<ruleVars, limVars, brkVars>>

\* The upgrade handler hands no upgrade on /graphql to a proxy.
UpgradeTarget_NotificationOnly(path, protocol) ==
  IF path = "/notifications/socket.io" THEN "notificationWs" ELSE ""

\* httpServer.on('upgrade'): the proxy whose upgrade() is called, if any:
\* notificationWsProxy for /notifications/socket.io, commentGraphQLWsProxy for
\* /graphql when the lower-cased Upgrade header is websocket.
UpgradeTarget(path, protocol) ==
  IF path = "/notifications/socket.io" THEN "notificationWs"
  ELSE IF path = "/graphql" /\ ToLowerCase(<<protocol>>) = <<"websocket">> THEN "commentWs"
  ELSE ""

\* The values of the Upgrade header.
Protocols == {"websocket", "WebSocket", "h2c"}

\* The server emits 'upgrade' instead of 'request': no middleware of the
\* application runs, and the handler calls upgrade() of a proxy or returns
\* without touching the socket.
GwOnUpgrade(path, protocol, token, supplied) ==
  /\ gw.pc = "idle"
  /\ LET target == UpgradeTarget(path, protocol)
     IN gw' = [IdleGw EXCEPT !.pc = IF target = "" THEN "done" ELSE "bridging",
                             !.path = path, !.token = token, !.via = "upgrade",
                             !.supplied = supplied,
                             !.upgrade = (ToLowerCase(<<protocol>>) = <<"websocket">>),
                             !.socket = "open", !.proxy = target]
  /\ UNCHANGED <<ruleVars, limVars, brkVars>>

\* onError of the two upgrade proxies, called with the client socket in the
\* place of res.  notificationWsProxy finds no res.status and destroys the
\* socket; commentGraphQLWsProxy finds headersSent undefined and calls
\* res.status, which a socket does not have: the handler throws and what
\* becomes of the socket is left to the proxy library.
WsOnError(proxy, endedByLibrary) ==
  IF proxy = "notificationWs" \/ endedByLibrary THEN "closed" ELSE "open"

\* proxy.upgrade(req, socket, head): the upstream accepts the upgrade and the
\* two sockets are piped, or the attempt fails and onError runs.
GwBridge(accepted, endedByLibrary) ==
  /\ gw.pc = "bridging"
  /\ gw' = IF accepted
           THEN [gw EXCEPT !.pc = "done", !.socket = "bridged",
                           !.bridge = ProxyUpstream(gw.proxy)]
           ELSE [gw EXCEPT !.pc = "done", !.socket = WsOnError(gw.proxy, endedByLibrary)]
  /\ UNCHANGED <<ruleVars, limVars, brkVars>>

\* The response has been written and the request is over.
GwFinish ==
  /\ gw.pc = "done"
  /\ gw' = IdleGw
  /\ UNCHANGED <<ruleVars, limVars, brkVars>>


(***************************************************************************)
(* The rate limiter and its store.                                         *)
(***************************************************************************)
RuleInit ==
  /\ rpath = <<"/">>
  /\ rres = getRateLimitRule(<<"/">>)

LimIdle ==
  /\ clock = StartClock
  /\ store = [k \in Keys |-> {}]
  /\ ttl = [k \in Keys |-> NoTTL]
  /\ ev = [p \in Slots |-> IdleEv]
  /\ adm = IdleAdm
  /\ hist = [k \in Keys |-> <<>>]
  /\ rst = [k \in Keys |-> [applied |-> FALSE, mark |-> "none"]]

\* The gateway has created its proxies: the breaker of the auth service is
\* registered, Closed.
BreakerInit ==
  /\ circuitBreakers = ("auth" :> NewBreaker("auth", "http://service", StartClock))
  /\ health = [s \in Services |-> "up"]
  /\ req = [r \in ReqSlots |-> IdleReq]
  /\ bhist = <<>>
  /\ trace = [s \in Services |-> NoTrace]

Init == RuleInit /\ LimIdle /\ BreakerInit /\ gw = IdleGw /\ bud \in Envelopes

Next ==
  \/ \E p \in Slots, ip \in IPs, path \in LimPaths : RlStart(p, ip, path)
  \/ \E p \in Slots : RlPrune(p)
  \/ \E p \in Slots : RlCount(p)
  \/ \E p \in Slots : RlAdd(p)
  \/ \E p \in Slots : RlExpire(p)
  \/ \E p \in Slots : RlOldest(p)
  \/ \E p \in Slots : RlRemoveAdded(p)
  \/ \E p \in Slots : RlStoreFails(p)
  \/ \E ip \in IPs, path \in LimPaths : StStart(ip, path)
  \/ StPrune
  \/ StCount
  \/ \E ip \in IPs, path \in LimPaths : RsDel(ip, path)
  \/ \E ip \in IPs : RsKeys(ip)
  \/ RsDelAll
  \/ AdmStoreFails
  \/ \E d \in TickSteps : Tick(d)


Spec == Init /\ [][Next]_vars

(***************************************************************************)
(* The rate limiter with one client that sends its requests one after the *)
(* other, half a window of the register rule apart.                        *)
(***************************************************************************)
RetryTickSteps == {RuleWindowMs(PathRegister) \div 2}

InitRetry ==
  /\ RuleInit /\ LimIdle /\ BreakerInit /\ gw = IdleGw
  /\ bud = Envelope(1, RetryEvals, RetryTicks, 0, 0, {PathRegister})

NextRetry ==
  \/ \E p \in Slots, ip \in IPs, path \in LimPaths : RlStart(p, ip, path)
  \/ \E p \in Slots : RlPrune(p)
  \/ \E p \in Slots : RlCount(p)
  \/ \E p \in Slots : RlAdd(p)
  \/ \E p \in Slots : RlExpire(p)
  \/ \E p \in Slots : RlOldest(p)
  \/ \E p \in Slots : RlRemoveAdded(p)
  \/ \E d \in RetryTickSteps : Tick(d)

SpecRetry == InitRetry /\ [][NextRetry]_vars

(***************************************************************************)
(* The circuit-breaker proxies.                                            *)
(***************************************************************************)
InitBreaker == RuleInit /\ LimIdle /\ BreakerInit /\ gw = IdleGw /\ bud \in BreakerEnvelopes

NextBreaker ==
  \/ \E s \in Services, serviceUrl \in ServiceUrls : createCircuitBreakerProxy(s, serviceUrl)
  \/ \E r \in ReqSlots, s \in Services, isWebSocket \in BOOLEAN : ProxyWrapper(r, s, isWebSocket)
  \/ \E r \in ReqSlots : OnProxyReq(r)
  \/ \E r \in ReqSlots, statusCode \in {200, 500}, sampledRes, sampledEnd \in BOOLEAN :
       OnProxyRes(r, statusCode, sampledRes, sampledEnd)
  \/ \E r \in ReqSlots : OnError(r)
  \/ \E r \in ReqSlots : ProxyReqDestroyed(r)
  \/ \E s \in Services, i \in 1..RecoverProbes : ProbeSucceeds(s, i)
  \/ \E s \in Services, i \in 1..RecoverProbes : ProbeFails(s, i)
  \/ \E s \in Services, i \in 1..RecoverProbes : ProbeTimesOut(s, i)
  \/ \E s \in Services : ResetTimer(s)
  \/ \E s \in Services : resetCircuitBreaker(s)
  \/ \E s \in Services, h \in {"up", "down", "hang"} : HealthChange(s, h)
  \/ \E d \in BreakerTickSteps : Tick(d)

SpecBreaker == InitBreaker /\ [][NextBreaker]_vars

(***************************************************************************)
(* The breaker under plain HTTP requests, with upstreams that either       *)
(* refuse connections or answer: every forwarded request with a 2xx and    *)
(* every call before the breaker's timeout.                                *)
(* Whatever the event loop has scheduled happens: a handler whose          *)
(* event has arrived runs, a due timer fires, a call that the upstream has *)
(* answered or refused settles, and time passes.  Arrivals and changes of  *)
(* an upstream's health are under no obligation; no administrative call is *)
(* made.                                                                   *)
(***************************************************************************)
InitBreakerLive == RuleInit /\ LimIdle /\ BreakerInit /\ gw = IdleGw /\ bud \in LiveEnvelopes

OnProxyResOk == \E r \in ReqSlots, sampledRes, sampledEnd \in BOOLEAN :
                  OnProxyRes(r, 200, sampledRes, sampledEnd)
NextBreakerLive ==
  \/ \E r \in ReqSlots, s \in Services : ProxyWrapper(r, s, FALSE)
  \/ \E r \in ReqSlots : OnProxyReq(r)
  \/ OnProxyResOk
  \/ \E r \in ReqSlots : OnError(r)
  \/ \E r \in ReqSlots : ProxyReqDestroyed(r)
  \/ \E s \in Services, i \in 1..LiveProbes : ProbeSucceeds(s, i)
  \/ \E s \in Services, i \in 1..LiveProbes : ProbeFails(s, i)
  \/ \E s \in Services : ResetTimer(s)
  \/ \E s \in Services, h \in {"up", "down"} : HealthChange(s, h)
  \/ \E d \in BreakerTickSteps : Tick(d)

EventLoopFairness ==
  /\ WF_vars(\E r \in ReqSlots : OnProxyReq(r))
  /\ WF_vars(OnProxyResOk)
  /\ WF_vars(\E r \in ReqSlots : OnError(r))
  /\ WF_vars(\E s \in Services, i \in 1..LiveProbes : ProbeSucceeds(s, i))
  /\ WF_vars(\E s \in Services, i \in 1..LiveProbes : ProbeFails(s, i))
  /\ WF_vars(\E s \in Services : ResetTimer(s))
  /\ WF_vars(\E d \in BreakerTickSteps : Tick(d))

SpecBreakerLive == InitBreakerLive /\ [][NextBreakerLive]_vars /\ EventLoopFairness

(***************************************************************************)
(* The breaker under concurrent plain HTTP requests, followed through one  *)
(* opening and the HalfOpen state after it.                                *)
(***************************************************************************)
InitTrial ==
  /\ RuleInit /\ LimIdle /\ BreakerInit /\ gw = IdleGw
  /\ bud = BreakerEnvelope(TrialInFlight, TrialReqs, TrialProbes, TrialTicks, TrialFlips, 0, 0,
                           {"auth"})

SpecTrial == InitTrial /\ [][NextBreakerLive]_vars

(***************************************************************************)
(* The middleware chain, one request after the other, for every outcome of *)
(* the rate limiter and every state of the breakers.                       *)
(***************************************************************************)
InitGateway ==
  RuleInit /\ LimIdle /\ BreakerInit /\ gw = IdleGw /\ bud = Envelope(0, 0, 0, 0, 0, {})

NextGateway ==
  \/ \E path \in GwPaths, upgrade \in BOOLEAN, token \in {"none", "invalid", "valid"} :
       \E body \in BodiesOf(path), supplied \in ClientIdentities :
         GwReceive(path, upgrade, token, body, supplied)
  \/ \E outcome \in {"admit", "reject", "storeError"} : GwRateLimiter(outcome)
  \/ GwRoute
  \/ GwAuthenticate
  \/ GwDispatch
  \/ \E state \in {"closed", "open", "halfOpen"} : GwBreakerWrapper(state)
  \/ \E state \in {"closed", "open", "halfOpen"} : GwOnProxyReq(state)
  \/ GwPlainProxy
  \/ \E status \in {200, 502} : GwUpstream(status)
  \/ \E path \in GwPaths, protocol \in Protocols, token \in {"none", "invalid", "valid"} :
       \E supplied \in ClientIdentities : GwOnUpgrade(path, protocol, token, supplied)
  \/ \E accepted, endedByLibrary \in BOOLEAN : GwBridge(accepted, endedByLibrary)
  \/ GwFinish

SpecGateway == InitGateway /\ [][NextGateway]_vars

(***************************************************************************)
(* getRateLimitRule as a function of the path alone.                       *)
(***************************************************************************)
Segments == {"api", "auth", "login", "default", "windowMs", "other"}
Tokens == Segments \cup {"/"}

\* Paths as the router hands them over: a leading "/", and never two pieces of
\* text without a separator between them.
RulePaths ==
  {p \in UNION {[1..n -> Tokens] : n \in 1..MaxPathLen} :
     /\ p[1] = "/"
     /\ \A i \in 1..(Len(p) - 1) : p[i] = "/" \/ p[i + 1] = "/"}

RuleCall(p) ==
  /\ rpath' = p
  /\ rres' = getRateLimitRule(p)
  /\ UNCHANGED <<limVars, brkVars, gwVars>>

RuleNext == \E p \in RulePaths : RuleCall(p)

SpecRule == Init /\ [][RuleNext]_vars

(***************************************************************************)
(* Properties of the rate limiter.                                         *)
(***************************************************************************)
Idx(k) == 1..Len(hist[k])
MaxOf(k) == RuleMaxRequests(k[2])
WindowOf(k) == RuleWindowMs(k[2])
HasHeader(o, h) == h \in DOMAIN o.headers
Remaining(o) == o.headers["X-RateLimit-Remaining"]

\* The store answered every evaluation of k, no reset was applied to k and no two
\* evaluations of k were in flight at the same time.
KeyClean(k) ==
  /\ ~rst[k].applied
  /\ \A i \in Idx(k) : ~hist[k][i].failOpen /\ ~hist[k][i].overlapped

\* The evaluations of k that the limiter admitted on the store's answer.
AdmittedIdx(k) == {i \in Idx(k) : hist[k][i].status = 0 /\ ~hist[k][i].failOpen}

C2_RejectionRollsBack ==
  \A k \in Keys : \A i \in Idx(k) :
    hist[k][i].status = 429 => hist[k][i].member \notin store[k]

\* C3: every 429 carries a Retry-After header and a retryAfter body field above 0.
C3_RetryAfterPositive ==
  \A k \in Keys : \A i \in Idx(k) :
    hist[k][i].status = 429 =>
      /\ HasHeader(hist[k][i], "Retry-After")
      /\ hist[k][i].headers["Retry-After"] > 0
      /\ hist[k][i].retryAfter > 0

\* C4: a request whose evaluation met a store failure is passed on exactly once and
\* is answered neither 429 nor with an error by the limiter.
C4_FailOpenOnce ==
  \A k \in Keys : \A i \in Idx(k) :
    hist[k][i].failOpen => hist[k][i].nextCalls = 1 /\ hist[k][i].status = 0

\* C4 witness: the store failed after the count had found the limit reached (at the
\* oldest-member lookup or at the rollback), and another time before the count.
C4_Witness ==
  \E k \in Keys : \E i \in Idx(k) :
    /\ hist[k][i].failOpen
    /\ LimitExceeded(hist[k][i].count, hist[k][i].maxRequests)

StatusStep == adm.pc \in {"st_zremrangebyscore", "st_zcard"} /\ adm' # adm

\* C6 as stated: no step of getRateLimitStatus changes the members or the deadline of
\* any key.
C6_StatusReadOnly == [][StatusStep => store' = store /\ ttl' = ttl]_vars

\* C6 amended: getRateLimitStatus adds no member and changes no key but its own; of
\* its own key it removes only members scored at or below now - windowMs, and the
\* key's deadline stays as it was unless no member is left.
C6_StatusOnlyPrunes ==
  [][StatusStep =>
       \A k \in Keys :
         /\ store'[k] \subseteq store[k]
         /\ k # KeyOf(adm) => store'[k] = store[k]
         /\ \A m \in store[k] \ store'[k] : m[1] <= adm.now - adm.windowMs
         /\ ttl'[k] = TtlAfter(store'[k], ttl[k])]_vars

\* C6 witness: a status call has returned after removing a member, and members of
\* the key were left.
C6_Witness ==
  /\ adm.pc = "idle" /\ adm.result.ok /\ adm.pruned > 0
  /\ adm.result.current > 0

\* C7: every response carries the three X-RateLimit headers, and every 429 carries
\* Retry-After as well.
C7_HeadersOnEveryResponse ==
  \A k \in Keys : \A i \in Idx(k) :
    /\ {"X-RateLimit-Limit", "X-RateLimit-Remaining", "X-RateLimit-Reset"}
         \subseteq DOMAIN hist[k][i].headers
    /\ hist[k][i].status = 429 => HasHeader(hist[k][i], "Retry-After")

\* The first n evaluations of k ran one after the other inside one window, the
\* store answering each, with no reset of the key.
SeqRun(k, n) ==
  /\ n <= Len(hist[k])
  /\ ~rst[k].applied
  /\ \A i \in 1..n :
       /\ ~hist[k][i].failOpen /\ ~hist[k][i].overlapped
       /\ hist[k][i].end < hist[k][1].start + WindowOf(k)

\* C8: of N + 1 sequential requests to a key inside one window, N = maxRequests, the
\* i-th is admitted with X-RateLimit-Remaining = N - i for i <= N and the (N+1)-th
\* is answered 429 with X-RateLimit-Remaining = 0.
C8_FirstNAdmitted ==
  \A k \in Keys : \A n \in Idx(k) :
    SeqRun(k, n) =>
      /\ n <= MaxOf(k) => hist[k][n].status = 0 /\ Remaining(hist[k][n]) = MaxOf(k) - n
      /\ n = MaxOf(k) + 1 => hist[k][n].status = 429 /\ Remaining(hist[k][n]) = 0

\* C8 witness: the login path (N = 5) has answered its sixth sequential request.
C8_Witness == SeqRun(<<"ip1", PathLogin>>, MaxOf(<<"ip1", PathLogin>>) + 1)

(***************************************************************************)
(* Properties of the rule lookup.                                          *)
(***************************************************************************)
\* A value of the table that is a rule: an object with a window and a maximum.
IsRule(x) == x.t = "obj" /\ {"windowMs", "maxRequests"} \subseteq DOMAIN x.v

\* The segments of a path, as the lookup numbers them.
PathParts(path) == FilterBoolean(SplitSlash(path))

\* The services of the table: its entries that hold rules rather than being one.
IsService(name) ==
  /\ Get(rateLimitRules, name).t = "obj"
  /\ ~IsRule(Get(rateLimitRules, name))

\* The rule the lookup is stated to return for a path.
StatedRule(path) ==
  LET parts == PathParts(path)
      global == Get(rateLimitRules, "default")
  IN IF Len(parts) < 2 \/ ~IsService(parts[2]) THEN global
     ELSE LET rules == Get(rateLimitRules, parts[2])
          IN IF Len(parts) >= 3 /\ IsRule(Get(rules, parts[3])) THEN Get(rules, parts[3])
             ELSE IF IsRule(Get(rules, "default")) THEN Get(rules, "default")
             ELSE global

\* C9: getRateLimitRule returns the rule of (service, action) when the table has
\* one, else the service's default rule when the service is in the table, else the
\* global default rule; a path of fewer than two segments gets the global default.
C9_RuleLookup ==
  /\ rres.t = StatedRule(rpath).t
  /\ rres = StatedRule(rpath)

(***************************************************************************)
(* Properties of the circuit breakers.                                     *)
(***************************************************************************)
\* The breaker of s has the default thresholds.
DefaultConfigured(s) ==
  /\ circuitBreakers[s].options.volumeThreshold = 1
  /\ circuitBreakers[s].options.errorThresholdPercentage = 30

\* The first call forwarded to s has failed with a proxy error.
FirstForwardedFailed(s) ==
  \E i \in 1..Len(bhist) :
    /\ bhist[i].svc = s /\ bhist[i].forwarded /\ bhist[i].failed
    /\ \A j \in 1..(i - 1) : ~(bhist[j].svc = s /\ bhist[j].forwarded)

\* s has refused connections since before the first request for it.
DownThroughout(s) == health[s] = "down" /\ trace[s].steady

\* C10: for a breaker created Closed with volumeThreshold = 1 and
\* errorThresholdPercentage = 30 whose service is down, once the first forwarded
\* call has failed and the failure tracked for it is recorded, the breaker has
\* opened; it is Open unless the reset timer or a manual reset came after.
C10_FirstFailureOpens ==
  \A s \in Registered :
    (/\ DefaultConfigured(s) /\ DownThroughout(s)
     /\ FirstForwardedFailed(s)
     /\ circuitBreakers[s].probes = <<>>) =>
      /\ trace[s].opens >= 1
      /\ (trace[s].resets = 0 /\ trace[s].halfOpens = 0) => Opened(circuitBreakers[s])

\* C10 witness: the first request for the default-configured breaker was forwarded
\* to its down service and answered 502, and the breaker is Open.
C10_Witness ==
  \E s \in Registered :
    /\ DefaultConfigured(s) /\ DownThroughout(s)
    /\ FirstForwardedFailed(s)
    /\ bhist[1].svc = s /\ bhist[1].status = 502
    /\ circuitBreakers[s].probes = <<>>
    /\ trace[s].resets = 0 /\ trace[s].halfOpens = 0
    /\ Opened(circuitBreakers[s])

\* The answers given so far to requests that were not upgrades and arrived while
\* the breaker of their service was Open.
ArrivedOpen == {i \in 1..Len(bhist) : ~bhist[i].ws /\ bhist[i].arrivedOpen}

\* The fields of the unavailability payload.
IsFallbackPayload(body, serviceName) ==
  /\ {"success", "error", "service", "timestamp"} \subseteq DOMAIN body
  /\ body.success = FALSE /\ body.error = "SERVICE_UNAVAILABLE"
  /\ body.service = serviceName /\ body.timestamp <= clock

\* C11: every request that is not an upgrade and arrives while the breaker of its
\* service is Open is answered 503 with the payload {success: false, error:
\* "SERVICE_UNAVAILABLE", service, timestamp}; it is not forwarded and no call of
\* fire() is made for it; and no such request is left waiting in the proxy.
C11_OpenAnswers503 ==
  /\ \A i \in ArrivedOpen :
       /\ bhist[i].status = 503 /\ bhist[i].responses = 1
       /\ IsFallbackPayload(bhist[i].body, bhist[i].svc)
       /\ ~bhist[i].forwarded /\ bhist[i].fired = 0
  /\ \A r \in ReqSlots : req[r].pc # "idle" /\ req[r].arrivedOpen => req[r].ws

\* C11 witness: a plain request arrived at an Open breaker and was answered 503
\* after an earlier request had been forwarded.
C11_Witness ==
  \E i \in ArrivedOpen :
    /\ bhist[i].status = 503
    /\ \E j \in 1..(i - 1) : bhist[j].svc = bhist[i].svc /\ bhist[j].forwarded

\* The changes of state that the transition rules allow.
StatedTransitions ==
  {<<"closed", "open">>, <<"open", "halfOpen">>, <<"halfOpen", "closed">>,
   <<"halfOpen", "open">>}

\* The step is a manual reset of the breaker of s.
ManualReset(s) == trace'[s].resets = trace[s].resets + 1

\* C12: every step that changes the state of a registered breaker takes it
\* Closed->Open, Open->HalfOpen, HalfOpen->Closed or HalfOpen->Open, or is a
\* manual reset that leaves it Closed; a breaker once registered stays
\* registered, and a new one starts Closed.
C12_OnlyStatedTransitions ==
  [][/\ Registered \subseteq DOMAIN circuitBreakers'
     /\ \A s \in DOMAIN circuitBreakers' \ Registered : circuitBreakers'[s].state = "closed"
     /\ \A s \in Registered :
          LET old == circuitBreakers[s].state
              new == circuitBreakers'[s].state
          IN old # new =>
               \/ <<old, new>> \in StatedTransitions
               \/ ManualReset(s) /\ new = "closed"]_vars

\* C12 witness: a breaker that opened, became HalfOpen when the reset timer
\* fired and closed again without a manual reset.
C12_Witness ==
  \E s \in Registered :
    /\ trace[s].opens >= 1 /\ trace[s].halfOpens >= 1 /\ trace[s].resets = 0
    /\ circuitBreakers[s].state = "closed"

\* The thresholds configured for a service: errorThresholdPercentage 50 for auth
\* and the default 30 for a service without options of its own; volumeThreshold
\* is 1 for every service.
StatedErrorThreshold(s) == IF s = "auth" THEN 50 ELSE 30
StatedVolumeThreshold(s) == 1

\* The step records a failure or a timeout in the breaker of s.
ErrorRecorded(s) ==
  Errors(circuitBreakers'[s].window) = Errors(circuitBreakers[s].window) + 1

\* With the outcome recorded, the window holds the volume and the error ratio
\* that the thresholds of s ask for.
ThresholdsMet(s) ==
  LET window == circuitBreakers'[s].window
  IN /\ Stat(window, "fires") >= StatedVolumeThreshold(s)
     /\ Errors(window) * 100 >= StatedErrorThreshold(s) * Stat(window, "fires")

\* C13: a step takes a Closed breaker to Open exactly when it records a failure
\* or a timeout and, with that outcome counted, the rolling window holds fires >=
\* volumeThreshold and (failures + timeouts) / fires >= errorThresholdPercentage,
\* the thresholds being those configured for the service.
C13_ClosedOpensAtThreshold ==
  [][\A s \in Registered :
       circuitBreakers[s].state = "closed" =>
         (circuitBreakers'[s].state = "open" <=> ErrorRecorded(s) /\ ThresholdsMet(s))]_vars

\* C13 witness: the breaker of auth, Closed until then, opened on a failure that
\* made the errors exactly half of the calls in its window.
C13_Witness ==
  /\ Opened(circuitBreakers["auth"])
  /\ trace["auth"].opens = 1 /\ trace["auth"].halfOpens = 0
  /\ Stat(circuitBreakers["auth"].window, "fires") >= 2
  /\ Errors(circuitBreakers["auth"].window) * 2 = Stat(circuitBreakers["auth"].window, "fires")
\* The resetTimeout configured for a service: 20 s for auth, and the default
\* 30 s for a service without options of its own.
StatedResetTimeout(s) == IF s = "auth" THEN 20000 ELSE 30000

\* The reset timer of every Open breaker is set and the clock has not passed it.
ResetTimerPending ==
  \A s \in Registered :
    Opened(circuitBreakers[s]) =>
      /\ circuitBreakers[s].resetAt # NoTimer
      /\ clock <= circuitBreakers[s].resetAt

ProbeSettled(s) == Len(circuitBreakers'[s].probes) = Len(circuitBreakers[s].probes) - 1

\* The step records a success in the breaker of s.
SuccessRecorded(s) ==
  Stat(circuitBreakers'[s].window, "successes") = Stat(circuitBreakers[s].window, "successes") + 1

\* The step answers a request for s that was forwarded and came back with a 2xx
\* or with a proxy error.
OutcomeAnswered(s) ==
  /\ Len(bhist') = Len(bhist) + 1
  /\ LET answer == bhist'[Len(bhist')]
     IN /\ answer.svc = s /\ answer.forwarded
        /\ answer.failed \/ (answer.status >= 200 /\ answer.status < 300)

\* C15: a HalfOpen breaker that still waits for its probe starts one when the
\* next forwarded request comes back with a 2xx or a proxy error; it has at most
\* one probe under way; when the probe settles, a success leaves the breaker
\* Closed and a failure or a timeout leaves it Open; and nothing else but a manual
\* reset changes the state of a HalfOpen breaker.
C15_HalfOpenProbeDecides ==
  /\ [](\A s \in Registered :
          HalfOpen(circuitBreakers[s]) =>
            Len(circuitBreakers[s].probes) = (IF circuitBreakers[s].pendingClose THEN 0 ELSE 1))
  /\ [][\A s \in Registered :
          LET b == circuitBreakers[s]
              after == circuitBreakers'[s]
          IN HalfOpen(b) =>
               /\ b.pendingClose /\ OutcomeAnswered(s) =>
                    after.probes = <<clock>> /\ ~after.pendingClose /\ HalfOpen(after)
               /\ ProbeSettled(s) =>
                    /\ SuccessRecorded(s) \/ ErrorRecorded(s)
                    /\ SuccessRecorded(s) => after.state = "closed"
                    /\ ErrorRecorded(s) => after.state = "open"
               /\ after.state # b.state => ProbeSettled(s) \/ ManualReset(s)]_vars

\* C15 witness: a HalfOpen breaker let the probe of a failed call through, the
\* probe failed and the breaker is Open for the second time.
C15_Witness ==
  \E s \in Registered :
    /\ Opened(circuitBreakers[s])
    /\ trace[s].opens = 2 /\ trace[s].halfOpens = 1 /\ trace[s].resets = 0
    /\ circuitBreakers[s].probes = <<>>
\* The state of the breaker of s, "none" while none is registered.
StateOf(s) == IF s \in Registered THEN circuitBreakers[s].state ELSE "none"

\* The upstream of s answers.
Healthy(s) == health[s] = "up"

\* A request for s has arrived and is on its way through the proxy, and the
\* calls that its answer will fire can still be made.
RequestUnderWay(s) ==
  /\ \E r \in ReqSlots : req[r].pc \in {"proxy", "upstream"} /\ req[r].svc = s
  /\ bud.probes >= 2

ProxyErrors(s) ==
  {i \in 1..Len(bhist) : bhist[i].svc = s /\ bhist[i].failed /\ bhist[i].state # "open"}

\* C17: every request whose forwarding failed with a proxy error while the
\* breaker of its service was not Open is answered 502 with the generic error
\* body, and a failure is recorded in that breaker for it: once no call is
\* under way, the breaker has recorded at least as many failures as there were
\* such errors.
C17_ProxyErrorRecordsFailure ==
  \A s \in Registered :
    /\ \A i \in ProxyErrors(s) :
         bhist[i].status = 502 /\ bhist[i].body = ProxyErrorBody(s)
    /\ circuitBreakers[s].probes = <<>> => trace[s].errors >= Cardinality(ProxyErrors(s))

(***************************************************************************)
(* Properties of the gateway.                                              *)
(***************************************************************************)
\* The place of a stage in the chain.
StageRank(stage) ==
  CASE stage \in {"RateLimitPass", "RateLimitReject"} -> 1
    [] stage \in {"IdentityPass", "IdentityReject"} -> 2
    [] stage \in {"BreakerPass", "BreakerReject"} -> 3
    [] OTHER -> 4

\* The stages that the request has gone through, and where the first of a
\* kind stands among them (0: nowhere).
Stages == gw.stages
StageAt(stage) ==
  IF \E i \in 1..Len(Stages) : Stages[i] = stage
  THEN CHOOSE i \in 1..Len(Stages) : Stages[i] = stage /\ \A j \in 1..(i - 1) : Stages[j] # stage
  ELSE 0
Forwarded == StageAt("Forwarded") # 0

\* C18: the stages of a request come in the order rate limit, identity,
\* breaker, forwarded, the rate limit first and each of rate limit, identity and
\* forwarded at most once; a request is forwarded only after the rate limiter
\* let it pass, after the identity check passed on the routes that have one, and,
\* by a proxy that has a breaker, after the breaker was found not Open and never
\* after it was found Open; a request rejected with 429 goes through no other
\* stage and keeps its 429.
C18_StagesInOrder ==
  /\ \A i, j \in 1..Len(Stages) :
       i < j => \/ StageRank(Stages[i]) < StageRank(Stages[j])
                \/ StageRank(Stages[i]) = 3 /\ StageRank(Stages[j]) = 3
  /\ Stages # <<>> => StageRank(Stages[1]) = 1
  /\ Forwarded =>
       /\ StageAt("RateLimitPass") = 1
       /\ StageAt("RateLimitReject") = 0 /\ StageAt("IdentityReject") = 0
       /\ gw.path # "/api/auth" => StageAt("IdentityPass") = 2
       /\ gw.proxy \in BreakerProxies =>
            /\ StageAt("BreakerPass") # 0 /\ StageAt("BreakerPass") < StageAt("Forwarded")
            /\ StageAt("BreakerReject") = 0
       /\ gw.upstream = ProxyUpstream(gw.proxy)
  /\ ~Forwarded => gw.upstream = ""
  /\ StageAt("RateLimitReject") # 0 =>
       Stages = <<"RateLimitReject">> /\ gw.status = 429 /\ gw.pc = "done"

\* C18 witness: a request for /api/media went through the rate limiter, the
\* identity check and both breaker checks, in this order, and was forwarded to
\* the media upstream.
C18_Witness ==
  /\ gw.pc = "done" /\ gw.path = "/api/media" /\ ~gw.upgrade /\ gw.status = 200
  /\ Stages = <<"RateLimitPass", "IdentityPass", "BreakerPass", "BreakerPass", "Forwarded">>
  /\ gw.upstream = "media"

\* The request is a plain one on /graphql and the dispatcher has chosen its proxy.
Dispatched == gw.path = "/graphql" /\ ~gw.upgrade /\ gw.proxy # ""

\* The body names an operation of the comment domain: its field is one of the
\* comment operations, it is a subscription, or its operationName contains
\* "comment" in either case.
NamesCommentOperation(body) ==
  \/ body.field \in CommentOperations
  \/ body.type = "subscription"
  \/ \E i \in 1..Len(body.operationName) : body.operationName[i] \in {"comment", "Comment"}

\* The body names an operation of the post domain.
NamesPostOperation(body) == body.field \in PostOperations

\* C19: a plain request on /graphql whose body names a comment operation
\* (getComments, createComment, deleteComment, commentAdded, commentUpdated,
\* commentDeleted, a subscription, or an operationName containing "comment") is
\* handed to the proxy of the comment upstream, and the upstream it is forwarded
\* to, if any, is comment and never post.
C19_CommentOperationsToComment ==
  Dispatched /\ NamesCommentOperation(gw.body) =>
    /\ gw.proxy = "comment"
    /\ gw.upstream \in {"", "comment"}
    /\ Forwarded => gw.upstream = "comment"

\* C19 witness: a deleteComment mutation without operationName was forwarded to
\* the comment upstream and answered.
C19_Witness ==
  /\ Dispatched /\ gw.pc = "done" /\ gw.status = 200
  /\ gw.body.field = <<"delete", "Comment">> /\ gw.body.operationName = <<>> /\ gw.body.literal = <<>>
  /\ Forwarded /\ gw.upstream = "comment"

\* C20: a plain request on /graphql whose body contains an operation of the
\* post domain (createPost, getPosts, getPost, deletePost) is handed to the
\* proxy of the post upstream, and the upstream it is forwarded to is post.
C20_PostOperationsToPost ==
  Dispatched /\ NamesPostOperation(gw.body) =>
    /\ gw.proxy = "post"
    /\ Forwarded => gw.upstream = "post"

\* The request is a WebSocket upgrade on /graphql.
GraphQLUpgrade == gw.path = "/graphql" /\ gw.upgrade

\* C21: a WebSocket upgrade on /graphql that arrives as an 'upgrade' event of
\* the server is handed to the WebSocket proxy of the comment upstream, and is
\* piped to no other upstream; one that arrives through the /graphql route is
\* handed to the same proxy once it is dispatched, goes through no breaker,
\* and, unless the rate limiter or the identity check answered it, has been
\* forwarded to the comment upstream when it is over.
C21_GraphQLUpgradeToComment ==
  /\ GraphQLUpgrade /\ gw.via = "upgrade" =>
       gw.proxy = "commentWs" /\ gw.bridge \in {"", "comment"}
  /\ GraphQLUpgrade /\ gw.via = "request" =>
       /\ gw.proxy \in {"", "commentWs"}
       /\ gw.upstream \in {"", "comment"}
       /\ StageAt("BreakerPass") = 0 /\ StageAt("BreakerReject") = 0
       /\ gw.pc = "done" /\ StageAt("RateLimitReject") = 0 /\ StageAt("IdentityReject") = 0 =>
            Forwarded /\ gw.upstream = "comment"

\* C21 witness: a WebSocket upgrade on /graphql arrived as an 'upgrade' event
\* and its socket is piped to the comment upstream.
C21_Witness ==
  GraphQLUpgrade /\ gw.via = "upgrade" /\ gw.socket = "bridged" /\ gw.bridge = "comment"

\* C22: no request with the Upgrade: websocket header is answered by a breaker
\* check, whatever the state of the breaker: none gets the 503 with the
\* unavailability payload without having been passed to the upstream (its
\* outgoing request destroyed).
C22_UpgradeBypassesBreaker ==
  \A i \in 1..Len(bhist) :
    bhist[i].ws =>
      ~(/\ bhist[i].status = 503 /\ IsFallbackPayload(bhist[i].body, bhist[i].svc)
        /\ ~bhist[i].forwarded)

\* The upstream that an upgrade request has reached: the one its socket is
\* piped to, or the one it was forwarded to through a route.
UpgradeReached ==
  IF gw.via = "upgrade" THEN gw.bridge
  ELSE IF gw.upgrade THEN gw.upstream ELSE ""

\* C23: an upgrade request has reached the comment or the notification
\* upstream only after the identity check has succeeded for it: the check
\* passed, and the identity of the caller is known, before the route was
\* resolved and the socket piped.
C23_IdentityBeforeUpgrade ==
  UpgradeReached \in {"comment", "notification"} =>
    StageAt("IdentityPass") # 0 /\ gw.user # NoUser

\* C24: an upgrade request that was not piped to an upstream (no proxy for
\* its path, or an attempt that failed) is over only with its client socket
\* closed by the gateway.
C24_FailedUpgradeClosesSocket ==
  gw.via = "upgrade" /\ gw.pc = "done" /\ gw.socket # "bridged" => gw.socket = "closed"

\* The places among the calls on the outgoing request where the header is set
\* to the value, and where the body is written or the request ended.
HeaderSetAt(name, value) ==
  {i \in 1..Len(gw.proxyReq) : gw.proxyReq[i] = ProxyReqCall("setHeader", name, value)}
BodyWrittenAt == {i \in 1..Len(gw.proxyReq) : gw.proxyReq[i].op \in {"write", "end"}}

\* C25: a request forwarded to the media, post or comment upstream for a
\* caller whose identity was resolved carries X-User-Id = userId and
\* X-User-Email = email, no other value was set for either header, and both
\* were set before the body was written.
C25_IdentityHeadersForwarded ==
  Forwarded /\ gw.upstream \in {"media", "post", "comment"} /\ gw.user # NoUser =>
    /\ HeaderSetAt("X-User-Id", gw.user.userId) # {}
    /\ HeaderSetAt("X-User-Email", gw.user.email) # {}
    /\ \A i \in 1..Len(gw.proxyReq) :
         gw.proxyReq[i].name \in {"X-User-Id", "X-User-Email"} =>
           /\ i \in HeaderSetAt("X-User-Id", gw.user.userId) \cup
                     HeaderSetAt("X-User-Email", gw.user.email)
           /\ \A w \in BodyWrittenAt : i < w

\* C25 witness: a createPost mutation of an authenticated caller was
\* forwarded to the post upstream with both headers and its body written
\* after them.
C25_Witness ==
  /\ Forwarded /\ gw.upstream = "post" /\ gw.user = verifyToken("valid")
  /\ gw.body.field = <<"create", "Post">>
  /\ HeaderSetAt("X-User-Id", "42") # {} /\ BodyWrittenAt # {}

\* C26: no request that the proxy has sent to the upstream is still in flight
\* after the timeout of the breaker of its service has passed.
C26_ForwardedCallBounded ==
  \A r \in ReqSlots :
    req[r].pc = "upstream" =>
      clock <= req[r].sentAt + circuitBreakers[req[r].svc].options.timeout

\* The breaker of t is changed by the step, or registered by it.
BreakerChanged(t) ==
  t \in DOMAIN circuitBreakers' /\ (t \notin Registered \/ circuitBreakers'[t] # circuitBreakers[t])

\* C27: a step in which no time passes and that changes the breaker of one
\* service (a call fired, an outcome recorded, an opening, a reset timer, a
\* manual reset) leaves the breaker and the bookkeeping of every other
\* service as they were, and the request answered in it, if any, is one of
\* that service; and a request is turned away with 503 only while the breaker
\* of its own service is Open.
C27_ServicesIndependent ==
  /\ [][\A t \in Services :
          clock' = clock /\ BreakerChanged(t) =>
            /\ \A u \in Registered \ {t} :
                 circuitBreakers'[u] = circuitBreakers[u] /\ trace'[u] = trace[u]
            /\ Len(bhist') > Len(bhist) => bhist'[Len(bhist')].svc = t]_vars
  /\ [](\A i \in 1..Len(bhist) :
          bhist[i].status = 503 => bhist[i].arrivedOpen \/ bhist[i].state = "open")

\* C27 witness: the breaker of auth is Open after a failure while the breaker
\* of notification, registered later, is Closed and has recorded a success.
C27_Witness ==
  /\ {"auth", "notification"} \subseteq Registered
  /\ Opened(circuitBreakers["auth"]) /\ trace["auth"].errors >= 1
  /\ circuitBreakers["notification"].state = "closed"
  /\ Stat(circuitBreakers["notification"].window, "successes") >= 1
  /\ trace["notification"] = [NoTrace EXCEPT !.calls = trace["notification"].calls,
                                              !.steady = trace["notification"].steady]

\* C28: a registered breaker stays registered and stays the breaker that was
\* created for its name (the same creation, base URL and options) in every
\* step, and a call of getServiceCircuitBreaker for a name that is registered,
\* with whatever URL, leaves the registry as it is.
C28_OneBreakerPerService ==
  [][\A s \in Registered :
       /\ s \in DOMAIN circuitBreakers'
       /\ circuitBreakers'[s].createdAt = circuitBreakers[s].createdAt
       /\ circuitBreakers'[s].serviceUrl = circuitBreakers[s].serviceUrl
       /\ circuitBreakers'[s].options = circuitBreakers[s].options
       /\ bud'.regs < bud.regs => circuitBreakers'[s] = circuitBreakers[s]]_vars

\* C28 witness: createCircuitBreakerProxy was called again for auth in a run
\* in which its breaker opened, and the registry holds the breaker created
\* at the start, Open, with its first URL.
C28_Witness ==
  /\ bud.services = {"auth", "notification"} /\ bud.regs = 0
  /\ Registered = {"auth"} /\ Opened(circuitBreakers["auth"])
  /\ circuitBreakers["auth"].createdAt = StartClock
  /\ circuitBreakers["auth"].serviceUrl = "http://service"

(***************************************************************************)
(* Properties of the rate limiter under concurrent evaluations.            *)
(***************************************************************************)
\* The store answered every evaluation of k and no reset was applied to k.
KeyAnswered(k) ==
  /\ ~rst[k].applied
  /\ \A i \in Idx(k) : ~hist[k][i].failOpen

\* The requests of k admitted inside the window that opens when the
\* evaluation i reads the clock (from the reading of the clock to the answer).
AdmittedInWindowOf(k, i) ==
  {j \in AdmittedIdx(k) :
     /\ hist[k][j].start >= hist[k][i].start
     /\ hist[k][j].end < hist[k][i].start + WindowOf(k)}

C30_RetryAfterSound ==
  \A k \in Keys : KeyClean(k) =>
    \A i, j \in Idx(k) :
      /\ i < j /\ hist[k][i].status = 429
      /\ hist[k][j].start >= hist[k][i].end + hist[k][i].retryAfter * 1000
      /\ \A m \in (i + 1)..(j - 1) : m \notin AdmittedIdx(k)
      => j \in AdmittedIdx(k)

(***************************************************************************)
(* Properties of the breaker under bursts, and of its answers.             *)
(***************************************************************************)
\* A proxy error of s has been answered, the call of fire() that tracks it is
\* under way, and no failure or timeout of s has been recorded yet.
FirstErrorPending(s) ==
  /\ s \in Registered
  /\ trace[s].errors = 0
  /\ circuitBreakers[s].probes # <<>>
  /\ \E i \in 1..Len(bhist) : bhist[i].svc = s /\ bhist[i].failed /\ bhist[i].fired = 1

\* C31: a burst passes the breaker before the first failure is registered: while
\* the call of fire() that tracks the first proxy error of a service is under
\* way the breaker is Closed, a request that arrives for the service is handed
\* to the proxy unanswered, and the proxy sends it to the upstream.
C31_BurstPassesBeforeFirstFailure ==
  [][\A s \in Services :
       FirstErrorPending(s) =>
         /\ circuitBreakers[s].state = "closed"
         /\ trace'[s].calls = trace[s].calls + 1 =>
              /\ bhist' = bhist
              /\ \E r \in ReqSlots :
                   req[r].pc = "idle" /\ req'[r].pc = "proxy" /\ req'[r].svc = s
         /\ \A r \in ReqSlots :
              req[r].pc = "proxy" /\ req[r].svc = s /\ req'[r] # req[r] =>
                req'[r].pc = "upstream"]_vars

\* The only request answered so far ended in a proxy error, the call that tracks
\* it is under way, and a request that arrived since is at the upstream.
C31_Witness ==
  \E s \in Services, r \in ReqSlots :
    /\ FirstErrorPending(s) /\ Len(bhist) = 1
    /\ req[r].svc = s /\ ~req[r].ws /\ req[r].arrivedPending
    /\ req[r].pc = "upstream"

\* The step answers a request of s with the response of the upstream, whose
\* status is not a 2xx.
UpstreamErrorStatus(s) ==
  /\ Len(bhist') = Len(bhist) + 1
  /\ LET answer == bhist'[Len(bhist')]
     IN /\ answer.svc = s /\ answer.forwarded /\ ~answer.failed
        /\ ~(answer.status >= 200 /\ answer.status < 300)

\* The step calls fire() on the breaker of s.
Fires(s) ==
  /\ s \in Registered /\ s \in DOMAIN circuitBreakers'
  /\ Stat(circuitBreakers'[s].window, "fires") > Stat(circuitBreakers[s].window, "fires")

\* C32: a response of the upstream with a status outside 2xx (a 5xx included)
\* changes neither the statistics nor the state of any breaker; fire() is called
\* only when the proxy reports an error while the breaker is not Open (for a
\* request at the upstream, or for one whose outgoing request was destroyed),
\* and when the upstream answers with a 2xx.
C32_NonSuccessStatusUntracked ==
  [][\A s \in Services :
       /\ UpstreamErrorStatus(s) =>
            circuitBreakers' = circuitBreakers /\ trace' = trace
       /\ Fires(s) =>
            \/ /\ Len(bhist') = Len(bhist) + 1
               /\ LET answer == bhist'[Len(bhist')]
                  IN /\ answer.svc = s /\ answer.forwarded /\ answer.fired > 0
                     /\ \/ answer.failed /\ ~Opened(circuitBreakers[s])
                        \/ ~answer.failed /\ answer.status >= 200 /\ answer.status < 300
            \/ /\ bhist' = bhist /\ ~Opened(circuitBreakers[s])
               /\ \E r \in ReqSlots :
                    req[r].pc = "destroyed" /\ req[r].svc = s /\ req'[r].pc = "idle"]_vars

\* A HalfOpen breaker whose upstream has answered a forwarded request with a 500:
\* no call of fire() was made for it and the breaker is HalfOpen still.
C32_Witness ==
  \E i \in 1..Len(bhist) :
    /\ bhist[i].status = 500 /\ bhist[i].forwarded /\ ~bhist[i].failed
    /\ bhist[i].fired = 0 /\ bhist[i].state = "halfOpen"
    /\ HalfOpen(circuitBreakers[bhist[i].svc])
    /\ circuitBreakers[bhist[i].svc].probes = <<>>

\* The requests of s that the proxy sent to the upstream since the breaker
\* became HalfOpen and that the upstream has not answered yet.
TrialCalls(s) ==
  {r \in ReqSlots : /\ req[r].pc = "upstream" /\ req[r].svc = s
                    /\ req[r].sentAt >= trace[s].halfOpenAt}

\* C33: while a breaker is HalfOpen at most one call is under way to the
\* upstream on its behalf: a request that arrives before the outcome of that
\* call is recorded is not forwarded.
C33_HalfOpenOneCall ==
  \A s \in Registered :
    HalfOpen(circuitBreakers[s]) => Cardinality(TrialCalls(s)) <= 1

\* What a call of resetCircuitBreaker does: for a registered name it returns
\* true and leaves the breaker Closed and the registry as large as it was; for
\* any other name it returns false and changes neither the registry nor any
\* request or answer.
ResetOutcome ==
  bud'.resets = bud.resets - 1 =>
    \E s \in Services :
      \/ /\ s \in Registered
         /\ trace'[s].resets = trace[s].resets + 1
         /\ trace'[s].falseResets = trace[s].falseResets
         /\ DOMAIN circuitBreakers' = Registered
         /\ circuitBreakers'[s].state = "closed"
      \/ /\ s \notin Registered
         /\ trace'[s].falseResets = trace[s].falseResets + 1
         /\ trace'[s].resets = trace[s].resets
         /\ circuitBreakers' = circuitBreakers
         /\ req' = req /\ bhist' = bhist /\ health' = health /\ clock' = clock

\* The answers given so far to the first request that followed a manual reset of
\* the breaker of its service.
AfterReset == {i \in 1..Len(bhist) : bhist[i].afterReset}

ProtectedPaths == {"/notifications/socket.io", "/api/media", "/graphql"}
ProtectedUpstreams == {"media", "post", "comment", "notification"}

\* The request has reached a breaker check or a proxy.
ReachedProxy ==
  \/ StageAt("BreakerPass") # 0 \/ StageAt("BreakerReject") # 0 \/ Forwarded
  \/ gw.pc \in {"dispatch", "breaker", "proxyReq", "proxy", "forwarded"}
  \/ gw.proxy # "" \/ gw.upstream # "" \/ gw.proxyReq # <<>>

\* C35: no HTTP request is forwarded to the media, post, comment or
\* notification upstream unless authenticateToken resolved an identity for it;
\* on the routes to them a request without a token that the rate limiter let
\* pass is answered 401 and one whose token does not verify 403, and neither
\* reaches a breaker check, a proxy or an upstream.
C35_NoIdentityNoForwarding ==
  gw.via = "request" =>
    /\ gw.upstream \in ProtectedUpstreams =>
         /\ StageAt("IdentityPass") # 0 /\ StageAt("IdentityPass") < StageAt("Forwarded")
         /\ gw.token = "valid" /\ gw.user = verifyToken(gw.token) /\ gw.user # NoUser
    /\ gw.path \in ProtectedPaths /\ gw.token # "valid" =>
         /\ ~ReachedProxy
         /\ gw.pc = "done" /\ StageAt("RateLimitPass") # 0 =>
              /\ Stages = <<"RateLimitPass", "IdentityReject">>
              /\ gw.status = IF gw.token = "none" THEN 401 ELSE 403

\* C35 witness: a request for /api/media with a token that does not verify went
\* through the rate limiter and was answered 403 by authenticateToken.
C35_Witness ==
  /\ gw.via = "request" /\ gw.path = "/api/media" /\ gw.token = "invalid"
  /\ gw.pc = "done" /\ gw.status = 403 /\ StageAt("IdentityReject") = 2
  /\ gw.upstream = ""

\* The answer is the fallback of the breaker, the error body of the proxy, or
\* the response of the upstream.
IsFallback(answer) ==
  answer.status = 503 /\ IsFallbackPayload(answer.body, answer.svc)
IsProxyError(answer) ==
  answer.status = 502 /\ answer.body = ProxyErrorBody(answer.svc) /\ answer.failed
IsUpstreamResponse(answer) ==
  answer.body = UpstreamBody(answer.svc) /\ answer.forwarded /\ ~answer.failed

\* C36: a request handled by a circuit-breaker proxy gets at most one response:
\* every response written is the first of its request and is exactly one of the
\* 503 fallback, the 502 error body and the upstream's response, and a request
\* whose outgoing request was destroyed by onProxyReq, the breaker having opened
\* after the wrapper's check, has its response already.
C36_AtMostOneResponse ==
  /\ \A i \in 1..Len(bhist) :
       /\ bhist[i].responses = 1
       /\ IsFallback(bhist[i]) \/ IsProxyError(bhist[i]) \/ IsUpstreamResponse(bhist[i])
       /\ ~(IsFallback(bhist[i]) /\ IsProxyError(bhist[i]))
       /\ ~(IsFallback(bhist[i]) /\ IsUpstreamResponse(bhist[i]))
       /\ ~(IsProxyError(bhist[i]) /\ IsUpstreamResponse(bhist[i]))
  /\ \A r \in ReqSlots :
       /\ req[r].pc = "destroyed" => req[r].headersSent
       /\ req[r].pc \in {"idle", "proxy", "upstream"} => ~req[r].headersSent

\* C36 witness: the breaker opened while a request was between the wrapper and
\* onProxyReq; onProxyReq answered it 503, the breaker was reset by hand, and
\* onError ran for the destroyed outgoing request: it called fire() (the second
\* call counted, the first being that of the request that opened the breaker)
\* and wrote nothing.
C36_Witness ==
  /\ Len(bhist) = 2
  /\ bhist[1].failed /\ bhist[1].fired = 1
  /\ IsFallback(bhist[2]) /\ ~bhist[2].arrivedOpen /\ ~bhist[2].forwarded /\ ~bhist[2].ws
  /\ bhist[2].fired = 0 /\ bhist[2].responses = 1
  /\ \A r \in ReqSlots : req[r].pc = "idle"
  /\ Stat(circuitBreakers[bhist[2].svc].window, "fires") = 2

(***************************************************************************)
(* Properties of the rate limiter's keys and rules.                        *)
(***************************************************************************)
\* The step is the passing of time in which the store deletes key k, whose
\* deadline has passed.
KeyExpires(k) == clock' > clock /\ store[k] # {} /\ Expired(k, clock')

\* C37: the expiry of a key by its TTL discards no member that is still inside
\* its window: when the deadline of a key passes, every member that the key
\* holds has a score of at most the deadline less windowMs.
C37_ExpiryDiscardsOnlyOld ==
  [][\A k \in Keys :
       KeyExpires(k) => \A m \in store[k] : m[1] <= ttl[k] - WindowOf(k)]_vars

\* C38: for every path getRateLimitRule returns a rule object: an object with a
\* numeric windowMs, a numeric maxRequests and a message, also when a segment of
\* the path is a key of the table or of a rule.
C38_AlwaysARule ==
  /\ rres.t = "obj"
  /\ Get(rres, "windowMs").t = "num"
  /\ Get(rres, "maxRequests").t = "num"
  /\ Get(rres, "message").t = "str"

\* The value of a header of the request that the upstream receives: the proxy
\* copies the headers of the incoming request, and a setHeader on the outgoing
\* request replaces the value ("" stands for no header).
UpstreamHeader(name) ==
  LET set == {i \in 1..Len(gw.proxyReq) :
                gw.proxyReq[i].op = "setHeader" /\ gw.proxyReq[i].name = name}
      last == CHOOSE i \in set : \A j \in set : j <= i
  IN IF set # {} THEN gw.proxyReq[last].value
     ELSE IF name = "X-User-Id" THEN gw.supplied.userId ELSE gw.supplied.email

\* C39: an X-User-Id or X-User-Email header that reaches an upstream, over a
\* forwarded request or an upgraded connection, has the value that the gateway
\* derived from the token it verified for the request, whatever the client put
\* into these headers.
C39_IdentityHeadersFromTokenOnly ==
  Forwarded \/ gw.bridge # "" =>
    /\ UpstreamHeader("X-User-Id") # "" =>
         gw.user # NoUser /\ UpstreamHeader("X-User-Id") = verifyToken(gw.token).userId
    /\ UpstreamHeader("X-User-Email") # "" =>
         gw.user # NoUser /\ UpstreamHeader("X-User-Email") = verifyToken(gw.token).email

====
